---------------------------- MODULE Spec2Model ----------------------------
(***************************************************************************)
(* A model of the local news-to-signal trading engine                      *)
(* (src/local_analyzer.py) and of its consumers.                           *)
(*                                                                         *)
(* Numbers are fixed point integers:                                       *)
(*   scores        in units of 1/10000  (round(x, 4) of the source)        *)
(*   confidences,                                                          *)
(*   relevances,                                                           *)
(*   weights       in units of 1/1000   (round(x, 3) of the source)        *)
(*   prices        in cents             (round(x, 2) of the source); a raw *)
(*                 quote of the collaborator is in mills (1/1000 dollar)   *)
(*   time          in minutes (the TTLs are timedelta(minutes = ...))      *)
(* Python's None is the string "None".  A dict is a function whose DOMAIN  *)
(* is the set of its keys.                                                 *)
(***************************************************************************)
EXTENDS Integers, Sequences, FiniteSets, TLC

VARIABLES
    clock,           \* datetime.now(), in minutes
    resolver_cache,  \* _resolver_cache: cache key -> [ticker, cached_at]
    price_cache,     \* _price_cache: symbol -> [price, cached_at]
    ta_cache,        \* _ta_cache: symbol -> [result, cached_at]
    ret,             \* what the call that just completed returned
    threads,         \* per thread, the lookup it is in the middle of
    sent_text,       \* SentimentAnalyzer.analyze: the text, as its tokens
    sent_result,     \* SentimentAnalyzer.analyze: the dict returned
    sig_stories,     \* SignalGenerator.generate: story_analyses
    sig_technical,   \* SignalGenerator.generate: technical_scores
    sig_recs,        \* SignalGenerator.generate: the list returned
    sig_done,        \* SignalGenerator.generate has returned
    det_text,        \* CompanyDetector.detect: the text, as its words
    det_tradeable,   \* CompanyDetector: the configured tradeable universe
    det_search,      \* what the symbol search answers for each name
    det_result,      \* CompanyDetector.detect: what the call computed
    eng_stories,     \* analyze_stories: the stories
    eng_args,        \* analyze_stories: filter_hold and max_recommendations
    eng_world,       \* what the collaborators answer during the run
    eng_result,      \* analyze_stories: what the run computed and returned
    age_published,   \* _parse_age_hours: the "published" string
    age_result,      \* _parse_age_hours: the age returned
    app_start,       \* the portfolio before auto_execute_trades was called
    app_portfolio,   \* st.session_state.portfolio
    app_rec_history, \* st.session_state.recommendation_history
    app_file,        \* what save_portfolio last wrote of the two
    app_recs,        \* auto_execute_trades: the recommendations
    app_world,       \* whether the market is open, and the quotes
    app_result,      \* auto_execute_trades: the list returned
    ta_hist,         \* TechnicalAnalyzer: the history the collaborator answers
    ta_result,       \* TechnicalAnalyzer.analyze: the dict returned
    ses_market_open, \* what is_market_open() answers now
    ses_news,        \* what fetch_news answers now: the titles of the items
    ses_last_news_hash,   \* st.session_state.last_news_hash, << >> if None
    ses_recommendations,  \* st.session_state.current_recommendations
    ses_force_news_check, \* st.session_state.force_news_check
    ses_run,         \* what the last run of the page did
    sel_requested,   \* a provider's _requested_model, << >> if None
    sel_supported,   \* the model names the provider's API lists
    sel_raises,      \* whether listing the models raises
    sel_gemini,      \* GeminiProvider._select_model: the outcome
    sel_openai       \* OpenAIProvider._select_model: the outcome

cacheVars == <<clock, resolver_cache, price_cache, ta_cache, ret>>

sentVars == <<sent_text, sent_result>>

sigVars == <<sig_stories, sig_technical, sig_recs, sig_done>>

detVars == <<det_text, det_tradeable, det_search, det_result>>

engVars == <<eng_stories, eng_args, eng_world, eng_result>>

ageVars == <<age_published, age_result>>

appVars == <<app_start, app_portfolio, app_rec_history, app_file, app_recs,
             app_world, app_result>>

taVars == <<ta_hist, ta_result>>

sesVars == <<ses_market_open, ses_news, ses_last_news_hash,
            ses_recommendations, ses_force_news_check, ses_run>>

selVars == <<sel_requested, sel_supported, sel_raises, sel_gemini, sel_openai>>

vars == <<cacheVars, threads, sentVars, sigVars, detVars, engVars, ageVars,
          appVars, taVars, sesVars, selVars>>

\* the variables the lookups leave alone
notCache == <<sentVars, sigVars, detVars, engVars, ageVars,
    appVars, taVars, sesVars, selVars>>

\* the variables SentimentAnalyzer.analyze leaves alone
notSent == <<cacheVars, threads, sigVars, detVars, engVars, ageVars,
    appVars, taVars, sesVars, selVars>>

\* the variables SignalGenerator.generate leaves alone
notSig == <<cacheVars, threads, sentVars, detVars, engVars, ageVars,
    appVars, taVars, sesVars, selVars>>

\* the variables CompanyDetector.detect leaves alone, resolver_cache apart
notDet == <<clock, price_cache, ta_cache, ret, threads, sentVars, sigVars,
            engVars, ageVars, appVars, taVars, sesVars, selVars>>

\* the variables analyze_stories leaves alone, the three caches apart
notEng == <<clock, ret, threads, sentVars, sigVars, detVars, ageVars,
    appVars, taVars, sesVars, selVars>>

\* the variables _parse_age_hours leaves alone
notAge == <<cacheVars, threads, sentVars, sigVars, detVars, engVars, appVars,
    taVars, sesVars, selVars>>

\* the variables auto_execute_trades leaves alone
notApp == <<cacheVars, threads, sentVars, sigVars, detVars, engVars, ageVars,
    taVars, sesVars, selVars>>

\* the variables TechnicalAnalyzer.analyze leaves alone, ta_cache apart
notTa == <<clock, resolver_cache, price_cache, ret, threads, sentVars,
           sigVars, detVars, engVars, ageVars, appVars, sesVars, selVars>>

\* the variables a run of the page leaves alone, the portfolio apart
notSes == <<cacheVars, threads, sentVars, sigVars, detVars, engVars, ageVars,
            app_start, app_recs, app_world, app_result, taVars, selVars>>

\* the variables the selection of a model leaves alone
notSel == <<cacheVars, threads, sentVars, sigVars, detVars, engVars, ageVars,
            appVars, taVars, sesVars>>

---------------------------------------------------------------------------
(* Generic helpers                                                         *)

None == "None"

Abs(x) == IF x < 0 THEN -x ELSE x

Sgn(x) == IF x < 0 THEN -1 ELSE IF x > 0 THEN 1 ELSE 0

Min2(a, b) == IF a < b THEN a ELSE b

Max2(a, b) == IF a > b THEN a ELSE b

\* a / b rounded to the nearest integer, ties to even (Python's round), b > 0
RoundDiv(a, b) ==
    LET n == Abs(a)
        q == n \div b
        r == n % b
        m == IF 2 * r > b \/ (2 * r = b /\ q % 2 = 1) THEN q + 1 ELSE q
    IN  IF a < 0 THEN -m ELSE m

\* d[k] = v for a dict d (the key is added when absent)
Put(d, k, v) == [x \in DOMAIN d \cup {k} |-> IF x = k THEN v ELSE d[x]]

EmptyDict == [x \in {} |-> None]

---------------------------------------------------------------------------
(* Bounds of the model                                                     *)

\* the clock stops advancing here
MaxClock == 30

\* the longest text given to the sentiment analyzer, in tokens
MaxTokens == 3

\* the most story analyses given to the signal generator
MaxStories == 2

\* the dates given to _parse_age_hours lie within so many hours of now
MaxAgeHours == 12

\* the most recommendations given to auto_execute_trades
MaxRecs == 2

\* the most trades a session of the app makes
MaxTrades == 2

\* the most model names a provider's API lists
MaxModels == 3

\* all sequences over S of length at most n
SeqsUpTo(S, n) == UNION {[1..k -> S] : k \in 0..n}

---------------------------------------------------------------------------
(* The three TTL caches                                                    *)

RESOLVER_CACHE_TTL == 30

CACHE_TTL == 2

TA_CACHE_TTL == 10

VALID_EXCHANGES == {"NMS", "NGM", "NCM", "NYQ", "NYSE", "NASDAQ", "NasijdaqGS", "PCX"}

\* str.lower() for the words of the model
Lower(word) ==
    CASE word = "Uber" -> "uber"
      [] word = "UBER" -> "uber"
      [] word = "Tesla" -> "tesla"
      [] word = "Nvidia" -> "nvidia"
      [] word = "NVDA" -> "nvda"
      [] word = "Report" -> "report"
      [] word = "V" -> "v"
      [] OTHER -> word

\* name.lower().strip() for the names of the model
CacheKey(name) == IF name = " uber" THEN "uber" ELSE Lower(name)

\* the cache check of resolve: the entry is there and younger than the TTL
ResolverFreshAtTTL(cache, key, now) ==
    key \in DOMAIN cache /\ now - cache[key].cached_at <= RESOLVER_CACHE_TTL

ResolverFresh(cache, key, now) ==
    key \in DOMAIN cache /\ now - cache[key].cached_at < RESOLVER_CACHE_TTL

\* the first of the quotes listed on an accepted exchange that has a symbol
RECURSIVE FirstListed(_)
FirstListed(quotes) ==
    IF quotes = <<>> THEN None
    ELSE IF Head(quotes).exchange \in VALID_EXCHANGES /\ Head(quotes).symbol # ""
         THEN Head(quotes).symbol
         ELSE FirstListed(Tail(quotes))

\* _lookup: the symbol search; search = [raised, quotes]; an exception is None
Lookup(search) ==
    IF search.raised THEN None
    ELSE FirstListed(SubSeq(search.quotes, 1, Min2(3, Len(search.quotes))))

\* resolve(name) at time now against cache, the search answering `search`:
\* the new cache, the ticker returned, whether it came from the cache
\* (the first stores only a ticker that was found)
ResolveCallCachesFound(cache, name, now, search) ==
    LET key == CacheKey(name) IN
    IF ResolverFresh(cache, key, now)
    THEN [cache |-> cache, ticker |-> cache[key].ticker, hit |-> TRUE]
    ELSE LET ticker == Lookup(search) IN
         [cache |-> IF ticker = None THEN cache
                    ELSE Put(cache, key, [ticker |-> ticker, cached_at |-> now]),
          ticker |-> ticker, hit |-> FALSE]

ResolveCall(cache, name, now, search) ==
    LET key == CacheKey(name) IN
    IF ResolverFresh(cache, key, now)
    THEN [cache |-> cache, ticker |-> cache[key].ticker, hit |-> TRUE]
    ELSE LET ticker == Lookup(search) IN
         [cache |-> Put(cache, key, [ticker |-> ticker, cached_at |-> now]),
          ticker |-> ticker, hit |-> FALSE]

\* the timestamp of the entry of key, -1 when there is none
StoredAt(cache, key) == IF key \in DOMAIN cache THEN cache[key].cached_at ELSE -1

---------------------------------------------------------------------------
(* DynamicResolver.extract_and_resolve and CompanyDetector.detect.  A text *)
(* is the sequence of its words, separated by blanks.  Relevances are in   *)
(* 1/1000.  A dict ticker -> number is a function on its keys.             *)

\* part of COMPANY_ALIASES
COMPANY_ALIASES == [nvidia |-> "NVDA", tesla |-> "TSLA"]

AMBIGUOUS_TICKERS == {"T", "V", "HD"}

\* part of the two stoplists
COMMON_PROPER_NOUNS == {"Report", "Market"}

COMMON_UPPER_WORDS == {"CEO", "US"}

\* the words of the model matching \b([A-Z][a-z]{1,20})\b
Capitalized(word) == word \in {"Uber", "Tesla", "Nvidia", "Report"}

\* the words of the model matching (?<![a-zA-Z])([A-Z]{2,5})(?![a-zA-Z])
UpperRun(word) == word \in {"UBER", "NVDA"}

\* the number of positions of tokens that satisfy Test
CountWhere(tokens, Test(_)) == Cardinality({i \in 1..Len(tokens) : Test(tokens[i])})

\* the distinct elements of tokens in the order of their first occurrence
RECURSIVE Distinct(_)
Distinct(tokens) ==
    IF tokens = << >> THEN << >>
    ELSE LET front == Distinct(SubSeq(tokens, 1, Len(tokens) - 1))
             last == tokens[Len(tokens)]
         IN  IF \E i \in 1..Len(front) : front[i] = last
             THEN front ELSE Append(front, last)

\* candidates: search term -> relevance, as the sequence of its items
Candidates(tokens) ==
    LET ProperNoun(w) == Capitalized(w) /\ w \notin COMMON_PROPER_NOUNS
        Pattern(w) == UpperRun(w) /\ w \notin COMMON_UPPER_WORDS
        nouns == Distinct(SelectSeq(tokens, ProperNoun))
        runs == Distinct(SelectSeq(tokens, Pattern))
    IN  [i \in 1..Len(nouns) |-> [word |-> nouns[i], relevance |-> 700]]
        \o [i \in 1..Len(runs) |-> [word |-> runs[i], relevance |-> 900]]

\* the loop that resolves the candidates from the i-th on
RECURSIVE ResolveFrom(_, _, _, _, _, _)
ResolveFrom(cands, i, cache, resolved, now, searches) ==
    IF i > Len(cands)
    THEN [cache |-> cache, resolved |-> resolved]
    ELSE LET r == ResolveCall(cache, cands[i].word, now, searches[cands[i].word])
             seen == IF r.ticker \in DOMAIN resolved THEN resolved[r.ticker] ELSE 0
         IN  ResolveFrom(cands, i + 1, r.cache,
                         IF r.ticker # None
                         THEN Put(resolved, r.ticker, Max2(seen, cands[i].relevance))
                         ELSE resolved,
                         now, searches)

\* extract_and_resolve(text)
ExtractAndResolve(cache, tokens, now, searches) ==
    ResolveFrom(Candidates(tokens), 1, cache, EmptyDict, now, searches)

\* pass 1 of detect: the occurrences of the aliases of ticker
AliasHitsAnyTicker(ticker, tokens, tradeable) ==
    LET Named(w) == Lower(w) \in DOMAIN COMPANY_ALIASES
                    /\ COMPANY_ALIASES[Lower(w)] = ticker
    IN  CountWhere(tokens, Named)

AliasHits(ticker, tokens, tradeable) ==
    LET Named(w) == Lower(w) \in DOMAIN COMPANY_ALIASES
                    /\ COMPANY_ALIASES[Lower(w)] = ticker
    IN  IF ticker \notin tradeable THEN 0 ELSE CountWhere(tokens, Named)

\* pass 2 of detect: the matches of the symbol pattern of ticker
SymbolHits(ticker, tokens, tradeable) ==
    LET Dollar(w) == (ticker = "V" /\ w = "$V")
        Bare(w) == w = ticker
    IN  IF ticker \notin tradeable THEN 0
        ELSE IF ticker \in AMBIGUOUS_TICKERS THEN CountWhere(tokens, Dollar)
        ELSE CountWhere(tokens, Bare)

\* the tickers of the model
Tickers == {"NVDA", "TSLA", "UBER", "V"}

\* detect(text): the new resolver cache, the dict extract_and_resolve
\* returned, the hit counts and the dict returned
Detect(cache, tokens, tradeable, now, searches) ==
    LET direct == [t \in Tickers |->
                      AliasHits(t, tokens, tradeable) + SymbolHits(t, tokens, tradeable)]
        dyn == ExtractAndResolve(cache, tokens, now, searches)
        pseudo(t) == Max2(1, (dyn.resolved[t] * 3) \div 1000)
        keys == {t \in Tickers : direct[t] > 0} \cup DOMAIN dyn.resolved
        ticker_hits == [t \in keys |->
                           IF t \in Tickers /\ direct[t] > 0 THEN direct[t]
                           ELSE pseudo(t)]
        max_hits == CHOOSE m \in {ticker_hits[t] : t \in keys} :
                        \A t \in keys : ticker_hits[t] <= m
    IN  [cache |-> dyn.cache,
         dynamic_hits |-> dyn.resolved,
         ticker_hits |-> ticker_hits,
         detected |-> [t \in keys |->
                          Min2(1000, RoundDiv(ticker_hits[t] * 1000, Max2(max_hits, 1)))]]

---------------------------------------------------------------------------
(* ExchangePriceFilter.get_price_info                                      *)

\* ExchangePriceFilter.MIN_PRICE, in cents
MIN_PRICE == 800

PriceFreshAtTTL(cache, symbol, now) ==
    symbol \in DOMAIN cache /\ now - cache[symbol].cached_at <= CACHE_TTL

PriceFresh(cache, symbol, now) ==
    symbol \in DOMAIN cache /\ now - cache[symbol].cached_at < CACHE_TTL

\* info.get("currentPrice") or info.get("regularMarketPrice"), in mills:
\* <<p>>, or << >> for None (a missing key; a price of 0 is falsy)
QuotedPrice(info) ==
    IF "currentPrice" \in DOMAIN info /\ info.currentPrice # 0
    THEN <<info.currentPrice>>
    ELSE IF "regularMarketPrice" \in DOMAIN info
         THEN <<info.regularMarketPrice>>
         ELSE << >>

\* round(float(price), 2): mills to cents
RoundCents(mills) == RoundDiv(mills, 10)

\* get_price_info(symbol) at time now against cache, the quote collaborator
\* answering quote = [raised, info]: the new cache and the dict returned
GetPriceInfo(cache, symbol, now, quote) ==
    IF PriceFresh(cache, symbol, now)
    THEN [cache |-> cache, hit |-> TRUE,
          info |-> [symbol |-> symbol, price |-> cache[symbol].price, success |-> TRUE]]
    ELSE IF quote.raised
    THEN [cache |-> cache, hit |-> FALSE,
          info |-> [symbol |-> symbol, success |-> FALSE, reason |-> "exception"]]
    ELSE IF QuotedPrice(quote.info) = << >>
    THEN [cache |-> cache, hit |-> FALSE,
          info |-> [symbol |-> symbol, success |-> FALSE, reason |-> "no price data"]]
    ELSE LET price == RoundCents(QuotedPrice(quote.info)[1]) IN
         [cache |-> Put(cache, symbol, [price |-> price, cached_at |-> now]),
          hit |-> FALSE,
          info |-> [symbol |-> symbol, price |-> price,
                    exchange |-> IF "exchange" \in DOMAIN quote.info
                                 THEN quote.info.exchange ELSE "",
                    success |-> TRUE]]

\* filter's two tests on the dict get_price_info returned: the ticker is kept
\* unless the lookup failed or the price is below MIN_PRICE
PassesAboveMin(info) == info.success /\ info.price > MIN_PRICE

Passes(info) == info.success /\ ~(info.price < MIN_PRICE)

\* the loop of filter from the i-th ticker on, quotes[symbol] being what the
\* quote collaborator answers for symbol: the cache and the valid dict
RECURSIVE FilterFrom(_, _, _, _, _, _)
FilterFrom(tickers, i, cache, valid, now, quotes) ==
    IF i > Len(tickers)
    THEN [cache |-> cache, valid |-> valid]
    ELSE LET symbol == tickers[i]
             r == GetPriceInfo(cache, symbol, now, quotes[symbol])
         IN  FilterFrom(tickers, i + 1, r.cache,
                        IF Passes(r.info) THEN Put(valid, symbol, r.info.price)
                        ELSE valid,
                        now, quotes)

\* ExchangePriceFilter.filter(tickers)
Filter(cache, tickers, now, quotes) ==
    FilterFrom(tickers, 1, cache, EmptyDict, now, quotes)

---------------------------------------------------------------------------
(* TechnicalAnalyzer.  The history collaborator answers                    *)
(*   hist = [raised, bars, rsi, above20, above50, sma20above50, bull,      *)
(*           bear, histpos, pastzero, roc, volratio]:                      *)
(* the number of daily bars and what the pandas computations make of them  *)
(* (rsi in 1/100, roc in 1/100 percent, volume ratio in 1/100).            *)

RSI_WEIGHT == 25

MA_WEIGHT == 30

MACD_WEIGHT == 30

ROC_WEIGHT == 15

\* the clamp max(lo, min(hi, x))
Clamp(lo, hi, x) == Max2(lo, Min2(hi, x))

\* _score_rsi, rsi in 1/100
ScoreRsi(rsi) ==
    IF rsi <= 2500 THEN 8000 + RoundDiv(2000 * (2500 - rsi), 2500)
    ELSE IF rsi <= 4000 THEN RoundDiv(8000 * (4000 - rsi), 1500)
    ELSE IF rsi <= 6000 THEN 0
    ELSE IF rsi <= 7500 THEN -RoundDiv(8000 * (rsi - 6000), 1500)
    ELSE -8000 - RoundDiv(2000 * (rsi - 7500), 2500)

\* _score_roc: math.tanh(roc / 8.0) at the rates of change of the model
ScoreRoc(roc) ==
    Clamp(-10000, 10000,
          CASE roc = -4000 -> -9999
            [] roc = -800 -> -7616
            [] roc = 0 -> 0
            [] roc = 800 -> 7616
            [] roc = 4000 -> 9999)

\* _score_ma over the flags of _compute_ma_signals (True when SMA50 is absent)
ScoreMa(hist) ==
    LET above50 == IF hist.bars >= 50 THEN hist.above50 ELSE TRUE
        s2050 == IF hist.bars >= 50 THEN hist.sma20above50 ELSE TRUE
    IN  Clamp(-10000, 10000,
              (IF hist.above20 THEN 3000 ELSE -3000)
              + (IF above50 THEN 3000 ELSE -3000)
              + (IF s2050 THEN 4000 ELSE -4000))

\* _score_macd
ScoreMacd(hist) ==
    IF hist.bull THEN 7000
    ELSE IF hist.bear THEN -7000
    ELSE IF hist.histpos THEN 3000 ELSE -3000

\* the volume multiplier of _compute, in 1/100
VolMultiplier(volratio) ==
    IF volratio > 150 THEN 100 + Min2(40, RoundDiv(volratio - 100, 5))
    ELSE IF volratio < 50 THEN 70
    ELSE 100

\* technical_score: the weighted sum times the multiplier, clamped, 4 decimals
TechnicalScore(raw100, mult) ==
    Clamp(-10000, 10000, RoundDiv(raw100 * mult, 10000))

\* _compute: the result dict of one ticker
Compute(symbol, hist) ==
    LET fail == [symbol |-> symbol, success |-> FALSE] IN
    IF hist.raised THEN fail
    ELSE IF hist.bars < 20 THEN fail
    \* rsi is None (< 15 bars) or ma is None (< 20) or macd is None (< 26)
    ELSE IF hist.bars < 15 \/ hist.bars < 20 \/ hist.bars < 26 THEN fail
    ELSE
    LET rsi_score == ScoreRsi(hist.rsi)
        ma_score == ScoreMa(hist)
        macd_score == ScoreMacd(hist)
        roc_score == IF hist.bars < 11 \/ hist.pastzero THEN 0 ELSE ScoreRoc(hist.roc)
        \* raw_score in units of 1/1000000
        raw100 == rsi_score * RSI_WEIGHT + ma_score * MA_WEIGHT
                  + macd_score * MACD_WEIGHT + roc_score * ROC_WEIGHT
        \* the scores s with s * raw_score > 0
        agree == Cardinality({i \in 1..4 :
                     Sgn(<<rsi_score, ma_score, macd_score, roc_score>>[i])
                     * Sgn(raw100) > 0})
        strength == Min2(1000000, 2 * Abs(raw100))
    IN  [symbol |-> symbol, success |-> TRUE,
         technical_score |-> TechnicalScore(raw100, VolMultiplier(hist.volratio)),
         technical_confidence |->
             Min2(1000, 300 + 100 * agree + RoundDiv(3 * strength, 10000)),
         rsi_score |-> rsi_score, ma_score |-> ma_score,
         macd_score |-> macd_score, roc_score |-> roc_score,
         indicators |-> [rsi |-> hist.rsi, roc |-> hist.roc,
                         volume_ratio |-> hist.volratio]]

TaFreshAtTTL(cache, symbol, now) ==
    symbol \in DOMAIN cache /\ now - cache[symbol].cached_at <= TA_CACHE_TTL

TaFresh(cache, symbol, now) ==
    symbol \in DOMAIN cache /\ now - cache[symbol].cached_at < TA_CACHE_TTL

\* TechnicalAnalyzer.analyze(symbol) at time now against cache (the first
\* stores only a successful analysis)
TaAnalyzeCachesSuccess(cache, symbol, now, hist) ==
    IF TaFresh(cache, symbol, now)
    THEN [cache |-> cache, result |-> cache[symbol].result, hit |-> TRUE]
    ELSE LET result == Compute(symbol, hist) IN
         [cache |-> IF result.success
                    THEN Put(cache, symbol, [result |-> result, cached_at |-> now])
                    ELSE cache,
          result |-> result, hit |-> FALSE]

TaAnalyze(cache, symbol, now, hist) ==
    IF TaFresh(cache, symbol, now)
    THEN [cache |-> cache, result |-> cache[symbol].result, hit |-> TRUE]
    ELSE LET result == Compute(symbol, hist) IN
         [cache |-> Put(cache, symbol, [result |-> result, cached_at |-> now]),
          result |-> result, hit |-> FALSE]

---------------------------------------------------------------------------
(* SentimentAnalyzer.  A text is the sequence of its lowercase tokens      *)
(* (re.findall(r"[a-z]+(?:'[a-z]+)?", text_lower)), which single spaces    *)
(* separate; contributions are in units of 1/1000000 (a lexicon score      *)
(* times a factor in 1/100).                                               *)

\* FINANCIAL_LEXICON, the single words of the model: word -> score
SingleWord ==
    [soar |-> 9000, strong |-> 5000, up |-> 3000, report |-> 0,
     bankruptcy |-> -9500, cut |-> -4000]

\* FINANCIAL_LEXICON, the entries with a space or a hyphen: <<first word,
\* second word, score>>
MultiWord == {<<"rate", "cut", 5000>>, <<"earnings", "beat", 7500>>}

NEGATION_WORDS == {"not", "no", "never", "fails"}

\* INTENSIFIERS.get(token, 1.0), in 1/100
Intensifier(token) ==
    CASE token = "extremely" -> 150
      [] token = "very" -> 130
      [] token = "slightly" -> 60
      [] OTHER -> 100

\* text_lower.count(phrase), summed into one contribution per occurrence
PhraseScores(tokens) ==
    LET hits == {<<i, ph>> \in (1..Len(tokens)) \X MultiWord :
                    /\ i + 1 <= Len(tokens)
                    /\ tokens[i] = ph[1]
                    /\ tokens[i + 1] = ph[2]}
    IN  [n |-> Cardinality(hits),
         sum |-> LET RECURSIVE Sum(_)
                     Sum(H) == IF H = {} THEN 0
                               ELSE LET h == CHOOSE x \in H : TRUE
                                    IN  h[2][3] * 100 + Sum(H \ {h})
                 IN  Sum(hits)]

\* the contribution of a word after a negation word: score * -0.75, in
\* 1/1000000 (the first turns the score round in full)
NegatedInFull(score) == score * (-100)

Negated(score) == score * (-75)

\* the token scan from position i on: the contributions appended
RECURSIVE TokenScores(_, _)
TokenScores(tokens, i) ==
    IF i > Len(tokens) THEN << >>
    ELSE IF /\ Intensifier(tokens[i]) # 100
            /\ i + 1 <= Len(tokens)
            /\ tokens[i + 1] \in DOMAIN SingleWord
    THEN <<SingleWord[tokens[i + 1]] * Intensifier(tokens[i])>>
         \o TokenScores(tokens, i + 2)
    ELSE IF /\ tokens[i] \in NEGATION_WORDS
            /\ i + 1 <= Len(tokens)
            /\ tokens[i + 1] \in DOMAIN SingleWord
    THEN <<Negated(SingleWord[tokens[i + 1]])>> \o TokenScores(tokens, i + 2)
    ELSE IF tokens[i] \in DOMAIN SingleWord
    THEN <<SingleWord[tokens[i]] * 100>> \o TokenScores(tokens, i + 1)
    ELSE TokenScores(tokens, i + 1)

RECURSIVE SumSeq(_)
SumSeq(q) == IF q = << >> THEN 0 ELSE Head(q) + SumSeq(Tail(q))

\* the score returned: round(avg_score, 4)
SentimentScore(sum, n) == RoundDiv(sum, n * 100)

\* SentimentAnalyzer.analyze(text)
SentimentAnalyze(tokens) ==
    LET phrases == PhraseScores(tokens)
        singles == TokenScores(tokens, 1)
        n == phrases.n + Len(singles)
        sum == phrases.sum + SumSeq(singles)
    IN  IF n = 0
        THEN [sentiment |-> "neutral", score |-> 0, confidence |-> 100,
              word_hits |-> 0]
        ELSE [sentiment |-> IF sum > 50000 * n THEN "positive"
                            ELSE IF sum < -50000 * n THEN "negative"
                            ELSE "neutral",
              score |-> SentimentScore(sum, n),
              \* 0.4 * min(1, n / 5) + 0.6 * min(1, |avg| * 2), in 1/1000
              confidence |->
                  Clamp(100, 1000,
                        RoundDiv(80 * Min2(5, n) * n * 10000
                                 + Min2(600 * n * 10000, 12 * Abs(sum)),
                                 n * 10000)),
              word_hits |-> n]

SentVocab == {"extremely", "not", "never", "soar", "strong", "report",
              "bankruptcy", "rate", "cut"}

Pending == [sentiment |-> "pending"]

SentIdle == sent_text = << >> /\ sent_result = Pending

SentInit == sent_text \in SeqsUpTo(SentVocab, MaxTokens) /\ sent_result = Pending

\* sentiment.analyze(text) is called and returns
SentAnalyze ==
    /\ sent_result = Pending
    /\ sent_result' = SentimentAnalyze(sent_text)
    /\ UNCHANGED sent_text
    /\ UNCHANGED notSent

---------------------------------------------------------------------------
(* SignalGenerator.  A story analysis is                                   *)
(*   [sentiment_score, sentiment_confidence, tickers, story_age_hours]     *)
(* with tickers the dict ticker -> relevance as the sequence of its items  *)
(* <<ticker, relevance>> in insertion order.  technical_scores is the dict *)
(* ticker -> result of TechnicalAnalyzer.  The blended score and the       *)
(* blended confidence are kept exactly, as fractions num / den (score in   *)
(* 1/10000, confidence in 1/1000000), next to their rounded values.        *)

\* thresholds, in 1/10000 (score) and 1/1000 (confidence)
BUY_THRESHOLD == 1500

SELL_THRESHOLD == -1500

MIN_CONFIDENCE == 300

\* blending weights, in 1/100
SENTIMENT_WEIGHT == 55

TECHNICAL_WEIGHT == 45

\* _time_decay_weight: exp(-ln(2) / 6.0 * max(age, 0)) in 1/1000, at the ages
\* (in hours) of the model
TimeDecayWeight(age) ==
    LET a == Max2(age, 0) IN
    CASE a = 0 -> 1000
      [] a = 1 -> 891
      [] a = 2 -> 794
      [] a = 6 -> 500
      [] a = 12 -> 250
      [] a = 48 -> 4

\* the (story, ticker) pairs of the double loop, in order, with what each
\* adds to the sums of its ticker
RECURSIVE Mentions(_)
Mentions(story_analyses) ==
    IF story_analyses = << >> THEN << >>
    ELSE LET a == Head(story_analyses)
             decay_w == TimeDecayWeight(a.story_age_hours)
             Item(j) ==
                 LET relevance == a.tickers[j][2]
                     combined_weight ==
                         RoundDiv(decay_w * relevance * a.sentiment_confidence,
                                  1000000)
                 IN  [ticker |-> a.tickers[j][1],
                      weighted_score_sum |-> a.sentiment_score * combined_weight,
                      weight_sum |-> combined_weight,
                      confidence_sum |-> a.sentiment_confidence * relevance,
                      story_count |-> 1]
         IN  [j \in 1..Len(a.tickers) |-> Item(j)] \o Mentions(Tail(story_analyses))

\* ticker_data[ticker][field]
RECURSIVE SumField(_, _, _)
SumField(mentions, ticker, field) ==
    IF mentions = << >> THEN 0
    ELSE (IF Head(mentions).ticker = ticker THEN Head(mentions)[field] ELSE 0)
         + SumField(Tail(mentions), ticker, field)

\* the keys of ticker_data, in insertion order
RECURSIVE KeysInOrder(_, _)
KeysInOrder(mentions, seen) ==
    IF mentions = << >> THEN << >>
    ELSE IF Head(mentions).ticker \in seen
         THEN KeysInOrder(Tail(mentions), seen)
         ELSE <<Head(mentions).ticker>>
              \o KeysInOrder(Tail(mentions), seen \cup {Head(mentions).ticker})

\* the action of a blended score num / den at a blended confidence cnum / cden
ActionOfLax(num, den, cnum, cden) ==
    IF num >= BUY_THRESHOLD * den /\ cnum >= MIN_CONFIDENCE * 1000 * cden THEN "BUY"
    ELSE IF num <= SELL_THRESHOLD * den /\ cnum >= MIN_CONFIDENCE * 1000 * cden
    THEN "SELL"
    ELSE "HOLD"

ActionOf(num, den, cnum, cden) ==
    IF num > BUY_THRESHOLD * den /\ cnum >= MIN_CONFIDENCE * 1000 * cden THEN "BUY"
    ELSE IF num < SELL_THRESHOLD * den /\ cnum >= MIN_CONFIDENCE * 1000 * cden
    THEN "SELL"
    ELSE "HOLD"

\* _position_size, from the confidence in 1/1000 and |score| in 1/10000
\* (the first without the floor of 1)
PositionSizeNoFloor(confidence, abs_score) ==
    Min2(20, RoundDiv(confidence * abs_score * 30, 10000000))

PositionSize(confidence, abs_score) ==
    Max2(1, Min2(20, RoundDiv(confidence * abs_score * 30, 10000000)))

\* the recommendation of one ticker of ticker_data (the first gives a ticker
\* without technical result a technical score and confidence of 0)
RecommendNeutralTechnical(ticker, mentions, technical_scores) ==
    LET wss == SumField(mentions, ticker, "weighted_score_sum")
        ws == SumField(mentions, ticker, "weight_sum")
        cs == SumField(mentions, ticker, "confidence_sum")
        count == SumField(mentions, ticker, "story_count")
        \* sentiment_confidence = min(1, cs / count * min(1, count / 3))
        scden == 3 * count
        scnum == Min2(cs * Min2(3, count), 1000000 * scden)
        blended == ticker \in DOMAIN technical_scores
        ta == technical_scores[ticker]
        num == IF blended
               THEN (SENTIMENT_WEIGHT \div 5) * wss
                    + (TECHNICAL_WEIGHT \div 5) * ta.technical_score * ws
               ELSE (SENTIMENT_WEIGHT \div 5) * wss
        den == 20 * ws
        cnum == IF blended
                THEN SENTIMENT_WEIGHT * scnum
                     + TECHNICAL_WEIGHT * 1000 * ta.technical_confidence * scden
                ELSE SENTIMENT_WEIGHT * scnum
        cden == 100 * scden
        confidence == RoundDiv(cnum, cden * 1000)
    IN  [symbol |-> ticker,
         action |-> ActionOf(num, den, cnum, cden),
         confidence |-> confidence,
         target_allocation_percent |->
             PositionSize(confidence, Abs(RoundDiv(num, den))),
         aggregated_score |-> RoundDiv(num, den),
         story_count |-> count,
         sentiment_score |-> RoundDiv(wss, ws),
         technical_score |-> IF blended THEN <<ta.technical_score>> ELSE << >>,
         technical_indicators |-> IF blended THEN <<ta.indicators>> ELSE << >>,
         score_num |-> num, score_den |-> den,
         confidence_num |-> cnum, confidence_den |-> cden]

Recommend(ticker, mentions, technical_scores) ==
    LET wss == SumField(mentions, ticker, "weighted_score_sum")
        ws == SumField(mentions, ticker, "weight_sum")
        cs == SumField(mentions, ticker, "confidence_sum")
        count == SumField(mentions, ticker, "story_count")
        \* sentiment_confidence = min(1, cs / count * min(1, count / 3))
        scden == 3 * count
        scnum == Min2(cs * Min2(3, count), 1000000 * scden)
        blended == ticker \in DOMAIN technical_scores
        ta == technical_scores[ticker]
        num == IF blended
               THEN (SENTIMENT_WEIGHT \div 5) * wss
                    + (TECHNICAL_WEIGHT \div 5) * ta.technical_score * ws
               ELSE wss
        den == IF blended THEN 20 * ws ELSE ws
        cnum == IF blended
                THEN SENTIMENT_WEIGHT * scnum
                     + TECHNICAL_WEIGHT * 1000 * ta.technical_confidence * scden
                ELSE scnum
        cden == IF blended THEN 100 * scden ELSE scden
        confidence == RoundDiv(cnum, cden * 1000)
    IN  [symbol |-> ticker,
         action |-> ActionOf(num, den, cnum, cden),
         confidence |-> confidence,
         target_allocation_percent |->
             PositionSize(confidence, Abs(RoundDiv(num, den))),
         aggregated_score |-> RoundDiv(num, den),
         story_count |-> count,
         sentiment_score |-> RoundDiv(wss, ws),
         technical_score |-> IF blended THEN <<ta.technical_score>> ELSE << >>,
         technical_indicators |-> IF blended THEN <<ta.indicators>> ELSE << >>,
         score_num |-> num, score_den |-> den,
         confidence_num |-> cnum, confidence_den |-> cden]

\* the sort key (action_order[action], -confidence), compared
ActionOrder(action) ==
    CASE action = "BUY" -> 0 [] action = "SELL" -> 1 [] action = "HOLD" -> 2

KeyLess(r1, r2) ==
    \/ ActionOrder(r1.action) < ActionOrder(r2.action)
    \/ /\ ActionOrder(r1.action) = ActionOrder(r2.action)
       /\ -r1.confidence < -r2.confidence

\* list.sort(key = ...): stable, by insertion from the right
RECURSIVE InsertSorted(_, _)
InsertSorted(sorted, r) ==
    IF sorted = << >> THEN <<r>>
    ELSE IF KeyLess(r, sorted[Len(sorted)])
         THEN InsertSorted(SubSeq(sorted, 1, Len(sorted) - 1), r)
              \o <<sorted[Len(sorted)]>>
         ELSE sorted \o <<r>>

RECURSIVE SortRecs(_)
SortRecs(recs) ==
    IF recs = << >> THEN << >>
    ELSE InsertSorted(SortRecs(SubSeq(recs, 1, Len(recs) - 1)), recs[Len(recs)])

RECURSIVE SelectRecs(_, _, _)
SelectRecs(keys, mentions, technical_scores) ==
    IF keys = << >> THEN << >>
    ELSE (IF SumField(mentions, Head(keys), "weight_sum") < 10 THEN << >>
          ELSE <<Recommend(Head(keys), mentions, technical_scores)>>)
         \o SelectRecs(Tail(keys), mentions, technical_scores)

\* SignalGenerator.generate(story_analyses, now, technical_scores)
Generate(story_analyses, technical_scores) ==
    LET mentions == Mentions(story_analyses) IN
    SortRecs(SelectRecs(KeysInOrder(mentions, {}), mentions, technical_scores))

---------------------------------------------------------------------------
(* ThemeMapper and LocalTradingEngine.analyze_stories.  A story is         *)
(*   [text, title, summary, published]                                     *)
(* with the three texts as sequences of words and published << >> for a    *)
(* missing date or <<p>> for a date string p (see Published).  The dicts   *)
(* of the run are functions on their keys; where the code iterates a dict, *)
(* the keys come in the order of TickerOrder.                              *)

\* part of THEME_MAP
THEME_MAP == [gpu |-> <<<<"NVDA", 1000>>, <<"AMD", 800>>>>]

\* map_themes(text)
MapThemes(tokens, tradeable) ==
    LET found == {k \in DOMAIN THEME_MAP :
                     \E i \in 1..Len(tokens) : Lower(tokens[i]) = k}
        weights(t) == UNION {{THEME_MAP[k][j][2] :
                                 j \in {n \in 1..Len(THEME_MAP[k]) :
                                           THEME_MAP[k][n][1] = t}} : k \in found}
        keys == {t \in tradeable : weights(t) # {}}
    IN  [t \in keys |-> CHOOSE w \in weights(t) : \A v \in weights(t) : v <= w]

TickerOrder == <<"NVDA", "TSLA", "UBER", "V", "AMD">>

\* dict.items()
Items(d) ==
    LET InDict(t) == t \in DOMAIN d
        keys == SelectSeq(TickerOrder, InDict)
    IN  [i \in 1..Len(keys) |-> <<keys[i], d[keys[i]]>>]

\* the text of a story: "text", or title and summary joined
StoryText(story) ==
    IF story.text # << >> THEN story.text ELSE story.title \o story.summary

\* A "published" string, by what _parse_age_hours can see of it: its shape,
\* the whole hours `wall` by which the date and time written in it are behind
\* the date and time of now (datetime.now(), naive local time), and the
\* hours `offset` by which the UTC offset written in it is ahead of the
\* offset of the local zone (0 for a string without offset).  The instant
\* the string denotes is wall + offset hours before now.
Published(shape, wall, offset) == [shape |-> shape, wall |-> wall, offset |-> offset]

\* the formats of _parse_age_hours, in the order they are tried
AgeFormats ==
    <<"%a, %d %b %Y %H:%M:%S %z", "%a, %d %b %Y %H:%M:%S %Z",
      "%Y-%m-%dT%H:%M:%S%z", "%Y-%m-%dT%H:%M:%S.%f%z",
      "%Y-%m-%dT%H:%M:%S", "%Y-%m-%d %H:%M:%S">>

\* datetime.strptime(s, fmt) does not raise, for s of the given shape:
\*   rfc822           Thu, 01 Jan 2026 10:00:00 +0500
\*   rfc822_gmt       Thu, 01 Jan 2026 10:00:00 GMT
\*   iso_offset       2026-01-01T10:00:00+05:00
\*   iso_frac_offset  2026-01-01T10:00:00.250000+05:00
\*   iso              2026-01-01T10:00:00
\*   iso_frac         2026-01-01T10:00:00.250000
\*   sql              2026-01-01 10:00:00
\*   other            anything else
Strptime(shape, fmt) ==
    \/ shape = "rfc822" /\ fmt = "%a, %d %b %Y %H:%M:%S %z"
    \/ shape = "rfc822_gmt" /\ fmt = "%a, %d %b %Y %H:%M:%S %Z"
    \/ shape = "iso_offset" /\ fmt = "%Y-%m-%dT%H:%M:%S%z"
    \/ shape = "iso_frac_offset" /\ fmt = "%Y-%m-%dT%H:%M:%S.%f%z"
    \/ shape = "iso" /\ fmt = "%Y-%m-%dT%H:%M:%S"
    \/ shape = "sql" /\ fmt = "%Y-%m-%d %H:%M:%S"

\* the loop over the formats from format i on: the age of the first format
\* that parses, the offset dropped by dt.replace(tzinfo=None); else 1
RECURSIVE AgeFrom(_, _)
AgeFrom(p, i) ==
    IF i > Len(AgeFormats) THEN 1
    ELSE IF Strptime(p.shape, AgeFormats[i]) THEN Max2(0, p.wall)
    ELSE AgeFrom(p, i + 1)

\* _parse_age_hours(published_str, now), in whole hours
ParseAgeHours(published) ==
    IF published = << >> THEN 1 ELSE AgeFrom(published[1], 1)

\* the merge of detected and themed tickers
CombinedTickers(detected, themed) ==
    [t \in DOMAIN detected \cup DOMAIN themed |->
        IF t \in DOMAIN themed
        THEN Min2(1000, (IF t \in DOMAIN detected THEN detected[t] ELSE 0)
                        + (themed[t] * 6) \div 10)
        ELSE detected[t]]

\* what one story with the text `text` adds to story_details, story_analyses
\* and all_tickers, given its sentiment, detected and themed tickers
StoryStep(text, published, sent, detected, combined, themed) ==
    [detail |-> [snippet |-> text,
                 sentiment |-> sent.sentiment,
                 sentiment_score |-> sent.score,
                 sentiment_confidence |-> sent.confidence,
                 word_hits |-> sent.word_hits,
                 companies_detected |-> detected,
                 themes_matched |-> themed,
                 combined_tickers |-> combined,
                 age_hours |-> ParseAgeHours(published)],
     analysis |-> [sentiment_score |-> sent.score,
                   sentiment_confidence |-> sent.confidence,
                   tickers |-> Items(combined),
                   story_age_hours |-> ParseAgeHours(published),
                   story_snippet |-> text],
     combined |-> combined]

\* all_tickers[t] = max(all_tickers[t], rel) for the combined tickers
MergeTickers(all_tickers, combined) ==
    [t \in DOMAIN all_tickers \cup DOMAIN combined |->
        Max2(IF t \in DOMAIN all_tickers THEN all_tickers[t] ELSE 0,
             IF t \in DOMAIN combined THEN combined[t] ELSE 0)]

\* the state of the loop of step 1 after a story with a text (the first
\* keeps no trace of a story without tickers)
AfterStoryTracesTickers(acc, det, step) ==
    [cache |-> det.cache,
     story_analyses |-> IF step.combined = EmptyDict THEN acc.story_analyses
                        ELSE Append(acc.story_analyses, step.analysis),
     story_details |-> IF step.combined = EmptyDict THEN acc.story_details
                       ELSE Append(acc.story_details, step.detail),
     all_tickers |-> MergeTickers(acc.all_tickers, step.combined)]

AfterStory(acc, det, step) ==
    [cache |-> det.cache,
     story_analyses |-> IF step.combined = EmptyDict THEN acc.story_analyses
                        ELSE Append(acc.story_analyses, step.analysis),
     story_details |-> Append(acc.story_details, step.detail),
     all_tickers |-> MergeTickers(acc.all_tickers, step.combined)]

\* one story of step 1
OneStory(acc, i, story, text, det, themed) ==
    IF text = << >> THEN acc
    ELSE AfterStory(acc, det,
                    StoryStep(text, story.published,
                              SentimentAnalyze([j \in 1..Len(text) |-> Lower(text[j])]),
                              det.detected,
                              CombinedTickers(det.detected, themed), themed))

\* step 1, from the i-th story on
RECURSIVE StoryLoop(_, _, _, _, _, _)
StoryLoop(stories, i, acc, now, tradeable, searches) ==
    IF i > Len(stories) THEN acc
    ELSE StoryLoop(stories, i + 1,
                   OneStory(acc, i, stories[i], StoryText(stories[i]),
                            Detect(acc.cache, StoryText(stories[i]), tradeable,
                                   now, searches),
                            MapThemes(StoryText(stories[i]), tradeable)),
                   now, tradeable, searches)

\* the tickers of an analysis that are left after the price filter
KeepAll(tickers, valid_prices) == tickers

KeepValid(tickers, valid_prices) ==
    LET Valid(item) == item[1] \in DOMAIN valid_prices IN
    SelectSeq(tickers, Valid)

\* step 2: the analyses after the price filter, those without tickers dropped
FilterAnalyses(story_analyses, valid_prices) ==
    LET kept == [i \in 1..Len(story_analyses) |->
                    [story_analyses[i] EXCEPT
                        !.tickers = KeepValid(@, valid_prices)]]
        HasTickers(a) == a.tickers # << >>
    IN  SelectSeq(kept, HasTickers)

\* step 2.5, from the i-th valid symbol on
RECURSIVE TechnicalFrom(_, _, _, _, _, _)
TechnicalFrom(symbols, i, cache, technical_scores, now, hists) ==
    IF i > Len(symbols)
    THEN [cache |-> cache, technical_scores |-> technical_scores]
    ELSE LET r == TaAnalyze(cache, symbols[i][1], now, hists[symbols[i][1]]) IN
         TechnicalFrom(symbols, i + 1, r.cache,
                       IF r.result.success
                       THEN Put(technical_scores, symbols[i][1], r.result)
                       ELSE technical_scores,
                       now, hists)

\* raw_recs[:max_recommendations] after the removal of HOLD
CapInclusive(raw_recs, filter_hold, max_recommendations) ==
    LET Actionable(r) == r.action # "HOLD"
        recs == IF filter_hold THEN SelectSeq(raw_recs, Actionable) ELSE raw_recs
    IN  SubSeq(recs, 1, Min2(max_recommendations + 1, Len(recs)))

Cap(raw_recs, filter_hold, max_recommendations) ==
    LET Actionable(r) == r.action # "HOLD"
        recs == IF filter_hold THEN SelectSeq(raw_recs, Actionable) ELSE raw_recs
    IN  SubSeq(recs, 1, Min2(max_recommendations, Len(recs)))

\* list(all_tickers.keys())
Keys(items) == [i \in 1..Len(items) |-> items[i][1]]

\* the run from step 3 on: the caches after the run, what the steps computed
\* and the fields of the dict returned
Step3(caches, step1, step2, step25, handed, raw_recs, n, args) ==
    [resolver |-> step1.cache, price |-> step2.cache, ta |-> step25.cache,
     filtered |-> TRUE, handed |-> handed, valid_prices |-> step2.valid,
     technical_scores |-> step25.technical_scores,
     raw_recs |-> raw_recs,
     success |-> TRUE,
     recommendations |-> Cap(raw_recs, args.filter_hold, args.max_recommendations),
     story_details |-> step1.story_details,
     stories_analyzed |-> n,
     tickers_detected |-> Cardinality(DOMAIN step2.valid)]

\* the run from step 2.5 on
Step25(caches, step1, step2, handed, step25, n, args) ==
    Step3(caches, step1, step2, step25, handed,
          Generate(handed, step25.technical_scores), n, args)

\* the run from step 2 on
Step2(caches, step1, step2, n, now, args, world) ==
    Step25(caches, step1, step2,
           FilterAnalyses(step1.story_analyses, step2.valid),
           TechnicalFrom(Items(step2.valid), 1, caches.ta, EmptyDict, now,
                         world.hists),
           n, args)

\* the run after step 1 (the second counts all the stories given, the first
\* only the stories that have a text)
Step1CountsTexts(caches, step1, n, now, args, world) ==
    IF step1.story_analyses = << >>
    THEN [resolver |-> step1.cache, price |-> caches.price, ta |-> caches.ta,
          filtered |-> FALSE, handed |-> << >>, valid_prices |-> EmptyDict,
          technical_scores |-> EmptyDict, raw_recs |-> << >>,
          success |-> TRUE, recommendations |-> << >>,
          story_details |-> step1.story_details,
          stories_analyzed |-> Len(step1.story_details), tickers_detected |-> 0]
    ELSE Step2(caches, step1,
               Filter(caches.price, Keys(Items(step1.all_tickers)), now,
                      world.quotes),
               n, now, args, world)

Step1(caches, step1, n, now, args, world) ==
    IF step1.story_analyses = << >>
    THEN [resolver |-> step1.cache, price |-> caches.price, ta |-> caches.ta,
          filtered |-> FALSE, handed |-> << >>, valid_prices |-> EmptyDict,
          technical_scores |-> EmptyDict, raw_recs |-> << >>,
          success |-> TRUE, recommendations |-> << >>,
          story_details |-> step1.story_details,
          stories_analyzed |-> n, tickers_detected |-> 0]
    ELSE Step2(caches, step1,
               Filter(caches.price, Keys(Items(step1.all_tickers)), now,
                      world.quotes),
               n, now, args, world)

\* analyze_stories(stories, now, filter_hold, max_recommendations) with the
\* caches as they are at time now
AnalyzeStories(caches, stories, now, args, tradeable, world) ==
    Step1(caches,
          StoryLoop(stories, 1,
                    [cache |-> caches.resolver, story_analyses |-> << >>,
                     story_details |-> << >>, all_tickers |-> EmptyDict],
                    now, tradeable, world.searches),
          Len(stories), now, args, world)

---------------------------------------------------------------------------
(* What the collaborators can answer                                       *)

Quote(symbol, exchange) == [symbol |-> symbol, exchange |-> exchange]

SearchEmpty == [raised |-> FALSE, quotes |-> << >>]

SearchRaises == [raised |-> TRUE, quotes |-> << >>]

SearchUber == [raised |-> FALSE, quotes |-> <<Quote("UBER", "NYQ")>>]

\* the symbol search finds every company, London listings first
SearchFinds ==
    [w \in {"Uber", "UBER", "Tesla", "NVDA"} |->
        [raised |-> FALSE,
         quotes |-> CASE w = "Tesla" -> <<Quote("TSLA", "NMS")>>
                      [] w = "NVDA" -> <<Quote("NVDA", "NMS")>>
                      [] OTHER -> <<Quote("UBER.L", "LSE"), Quote("UBER", "NYQ")>>]]

\* the symbol search finds nothing, or fails
SearchNothing == [w \in {"Uber", "UBER", "Tesla", "NVDA"} |-> SearchEmpty]

SearchFails == [w \in {"Uber", "UBER", "Tesla", "NVDA"} |-> SearchRaises]

QuoteRaises == [raised |-> TRUE, info |-> EmptyDict]

QuoteListed == [raised |-> FALSE,
                info |-> [currentPrice |-> 120004, exchange |-> "NMS"]]

\* a quote without a price
QuoteNoPrice == [raised |-> FALSE, info |-> [exchange |-> "NMS"]]

\* a quote of 7.996 under regularMarketPrice only
QuoteAtMin == [raised |-> FALSE,
               info |-> [currentPrice |-> 0, regularMarketPrice |-> 7996,
                         exchange |-> "NYQ"]]

\* a quote of 7.994
QuoteBelowMin == [raised |-> FALSE,
                  info |-> [currentPrice |-> 7994, exchange |-> "NYQ"]]

\* a quote of 50.00 from a London listing
QuoteLondon == [raised |-> FALSE,
                info |-> [currentPrice |-> 50000, exchange |-> "LSE"]]

Hist(bars, rsi, above, bull, bear, roc, volratio) ==
    [raised |-> FALSE, bars |-> bars, rsi |-> rsi, above20 |-> above,
     above50 |-> above, sma20above50 |-> above, bull |-> bull, bear |-> bear,
     histpos |-> above, pastzero |-> FALSE, roc |-> roc, volratio |-> volratio]

HistRaises == [raised |-> TRUE, bars |-> 0]

\* oversold, above its averages, bullish crossover, heavy volume
HistBull == Hist(60, 2000, TRUE, TRUE, FALSE, 800, 200)

\* overbought, below its averages, bearish crossover, very heavy volume
HistBear == Hist(60, 10000, FALSE, FALSE, TRUE, -4000, 350)

---------------------------------------------------------------------------
(* The lookups, one call after the other                                   *)

NoCall == [op |-> "none"]

Threads == {1, 2}

Idle == [state |-> "idle"]

CacheInit ==
    /\ clock = 0
    /\ resolver_cache = EmptyDict
    /\ price_cache = EmptyDict
    /\ ta_cache = EmptyDict
    /\ ret = NoCall
    /\ threads = [t \in Threads |-> Idle]

\* the story analyses and technical results given to generate
SigTickerItems == {<<<<"NVDA", 1000>>>>, <<<<"UBER", 1000>>>>,
                   <<<<"NVDA", 1000>>, <<"UBER", 500>>>>}

SigStories ==
    {[sentiment_score |-> s, sentiment_confidence |-> 1000, tickers |-> tk,
      story_age_hours |-> a] :
        s \in {1500, 6000, 10000, -1500, -6000}, tk \in SigTickerItems,
        a \in {0, 6}}

SigTechnical ==
    {[t \in D |-> Compute(t, IF t = "NVDA" THEN HistBull ELSE HistBear)] :
        D \in SUBSET {"NVDA", "UBER"}}

SigIdle ==
    /\ sig_stories = << >>
    /\ sig_technical = EmptyDict
    /\ sig_recs = << >>
    /\ sig_done = FALSE

SigInit ==
    /\ sig_stories \in SeqsUpTo(SigStories, MaxStories)
    /\ sig_technical \in SigTechnical
    /\ sig_recs = << >>
    /\ sig_done = FALSE

\* signals.generate(story_analyses, now, technical_scores) is called and returns
SigGenerate ==
    /\ ~sig_done
    /\ sig_recs' = Generate(sig_stories, sig_technical)
    /\ sig_done' = TRUE
    /\ UNCHANGED <<sig_stories, sig_technical>>
    /\ UNCHANGED notSig

\* the words of the texts given to detect
DetVocab == {"Tesla", "Uber", "UBER", "NVDA", "Report", "V"}

\* the configured universes
Universes == {{"NVDA", "TSLA", "V"}, {"NVDA", "V"}}

NoResult == [cache |-> EmptyDict, dynamic_hits |-> EmptyDict,
             ticker_hits |-> EmptyDict, detected |-> EmptyDict, done |-> FALSE]

DetIdle ==
    /\ det_text = << >>
    /\ det_tradeable = {}
    /\ det_search = SearchNothing
    /\ det_result = NoResult

DetInit ==
    /\ det_text \in SeqsUpTo(DetVocab, MaxTokens)
    /\ det_tradeable \in Universes
    /\ det_search \in {SearchFinds, SearchNothing, SearchFails}
    /\ det_result = NoResult

\* companies.detect(text) is called and returns
DetDetect ==
    LET r == Detect(resolver_cache, det_text, det_tradeable, clock, det_search) IN
    /\ ~det_result.done
    /\ resolver_cache' = r.cache
    /\ det_result' = [cache |-> r.cache, dynamic_hits |-> r.dynamic_hits,
                      ticker_hits |-> r.ticker_hits, detected |-> r.detected,
                      done |-> TRUE]
    /\ UNCHANGED <<det_text, det_tradeable, det_search>>
    /\ UNCHANGED notDet

\* part of TRADEABLE_STOCKS, which the app gives to the engine
TRADEABLE_STOCKS == {"NVDA", "TSLA", "V"}

Story(text, title, summary, published) ==
    [text |-> text, title |-> title, summary |-> summary, published |-> published]

\* the stories given to analyze_stories
EngStories ==
    {Story(<< >>, << >>, << >>, << >>),
     Story(<<"report">>, << >>, << >>, <<Published("iso", 0, 0)>>),
     Story(<<"Uber", "extremely", "soar">>, << >>, << >>,
           <<Published("iso_offset", 0, 0)>>),
     Story(<<"NVDA", "strong">>, << >>, << >>, << >>),
     Story(<< >>, <<"Tesla">>, <<"bankruptcy">>, <<Published("rfc822", 6, 0)>>),
     Story(<<"gpu", "soar">>, << >>, << >>, <<Published("sql", 0, 0)>>),
     Story(<<"NVDA", "bankruptcy">>, << >>, << >>, <<Published("iso", 0, 0)>>),
     Story(<<"NVDA", "Tesla", "report">>, << >>, << >>,
           <<Published("iso", 0, 0)>>)}

\* the lists of stories given to analyze_stories: up to MaxStories stories,
\* and the same lists behind a story that has no text
EngStoryLists ==
    SeqsUpTo(EngStories, MaxStories)
        \cup {<<Story(<< >>, << >>, << >>, << >>)>> \o s :
                  s \in SeqsUpTo(EngStories, MaxStories)}

\* what the collaborators answer during a run
EngWorlds ==
    {[searches |-> s, quotes |-> q, hists |-> h] :
        s \in {SearchFinds, SearchFails},
        q \in {[t \in Tickers |-> QuoteListed],
               [t \in Tickers |-> IF t = "UBER" THEN QuoteRaises
                                  ELSE IF t = "TSLA" THEN QuoteBelowMin
                                  ELSE QuoteListed]},
        h \in {[t \in Tickers |-> HistBull], [t \in Tickers |-> HistRaises],
               [t \in Tickers |-> IF t = "NVDA" THEN HistRaises ELSE HistBull]}}

NotRun == [done |-> FALSE]

EngIdle ==
    /\ eng_stories = << >>
    /\ eng_args = [filter_hold |-> TRUE, max_recommendations |-> 8]
    /\ eng_world = [searches |-> SearchNothing,
                    quotes |-> [t \in Tickers |-> QuoteRaises],
                    hists |-> [t \in Tickers |-> HistRaises]]
    /\ eng_result = NotRun

EngInit ==
    /\ eng_stories \in EngStoryLists
    /\ eng_args \in [filter_hold : BOOLEAN, max_recommendations : {0, 1, 8}]
    /\ eng_world \in EngWorlds
    /\ eng_result = NotRun

\* engine.analyze_stories(stories, ...) has returned r
Returned(r) ==
    /\ resolver_cache' = r.resolver
    /\ price_cache' = r.price
    /\ ta_cache' = r.ta
    /\ eng_result' = [done |-> TRUE, out |-> r]

\* engine.analyze_stories(stories, ...) is called and returns
EngAnalyze ==
    /\ ~eng_result.done
    /\ Returned(AnalyzeStories([resolver |-> resolver_cache,
                                price |-> price_cache, ta |-> ta_cache],
                               eng_stories, clock, eng_args, TRADEABLE_STOCKS,
                               eng_world))
    /\ UNCHANGED <<eng_stories, eng_args, eng_world>>
    /\ UNCHANGED notEng

---------------------------------------------------------------------------
(* The paper-trading portfolio of app.py.  Money is in cents, a number of  *)
(* shares in 1/10000 of a share, a confidence in 1/1000, an allocation in  *)
(* percent.  The code computes in floats; the model rounds every quotient  *)
(* down to its unit.  A portfolio is                                       *)
(*   [cash, positions, trade_history]                                      *)
(* with positions a function symbol -> [shares, avg_cost]; timestamps are  *)
(* left out.  A recommendation is a dict: a function on the keys it has.   *)

\* $100,000.00
INITIAL_CAPITAL == 10000000

\* [q, r] with a * b = q * c + r and 0 <= r < c, without forming a * b
RECURSIVE MulDivRem(_, _, _)
MulDivRem(a, b, c) ==
    IF b = 0 THEN [q |-> 0, r |-> 0]
    ELSE LET h == MulDivRem(a, b \div 2, c)
             r3 == 2 * h.r + (b % 2) * (a % c)
         IN  [q |-> 2 * h.q + (b % 2) * (a \div c) + r3 \div c, r |-> r3 % c]

\* a * b / c, rounded down
MulDiv(a, b, c) == IF a = 0 THEN 0 ELSE MulDivRem(a, b, c).q

\* st.session_state.portfolio as initialize_portfolio creates it
InitialPortfolio ==
    [cash |-> INITIAL_CAPITAL, positions |-> EmptyDict, trade_history |-> << >>]

\* get_stock_price(symbol): quotes[symbol] is << >> when the fetch raises or
\* gives no price, else <<price>>
GetStockPrice(quotes, symbol) ==
    IF quotes[symbol] = << >> \/ quotes[symbol] = <<0>>
    THEN [symbol |-> symbol, success |-> FALSE]
    ELSE [symbol |-> symbol, success |-> TRUE, price |-> quotes[symbol][1]]

\* the symbols a position can be held in, in the order of the positions dict
AppSymbols == <<"NVDA", "TSLA">>

\* calculate_portfolio_value(): cash plus the priced positions from the
\* i-th symbol on
RECURSIVE ValueFrom(_, _, _)
ValueFrom(portfolio, quotes, i) ==
    IF i > Len(AppSymbols) THEN 0
    ELSE LET symbol == AppSymbols[i] IN
         (IF symbol \in DOMAIN portfolio.positions
             /\ GetStockPrice(quotes, symbol).success
          THEN MulDiv(portfolio.positions[symbol].shares,
                      GetStockPrice(quotes, symbol).price, 10000)
          ELSE 0)
         + ValueFrom(portfolio, quotes, i + 1)

CalculatePortfolioValue(portfolio, quotes) ==
    portfolio.cash + ValueFrom(portfolio, quotes, 1)

\* the dict d without the key k
Without(d, k) == [x \in DOMAIN d \ {k} |-> d[x]]

\* the trade record of execute_paper_trade, appended to the history of the
\* portfolio as updated by the trade
Recorded(portfolio, symbol, action, shares, price, amount, reason, confidence, quotes) ==
    [portfolio EXCEPT !.trade_history =
        Append(@, [symbol |-> symbol, action |-> action, shares |-> shares,
                   price |-> price, amount |-> amount, reason |-> reason,
                   confidence |-> confidence,
                   portfolio_value_at_trade |->
                       CalculatePortfolioValue(portfolio, quotes)])]

\* the BUY branch of execute_paper_trade, amount already cut to the cash
BuyShares(portfolio, symbol, amount, price) ==
    LET shares == MulDiv(amount, 10000, price)
        held == symbol \in DOMAIN portfolio.positions
        pos == portfolio.positions[symbol]
        total_shares == pos.shares + shares
        total_cost == MulDiv(pos.shares, pos.avg_cost, 10000)
                      + MulDiv(shares, price, 10000)
    IN  [cash |-> portfolio.cash - amount,
         positions |->
             IF held
             THEN Put(portfolio.positions, symbol,
                      [shares |-> total_shares,
                       avg_cost |-> MulDiv(total_cost, 10000, total_shares)])
             ELSE Put(portfolio.positions, symbol,
                      [shares |-> shares, avg_cost |-> price]),
         trade_history |-> portfolio.trade_history]

\* `if pos['shares'] < 0.0001`: the position is deleted (the first keeps
\* every position)
EmptiedNever(left) == FALSE

Emptied(left) == left < 1

\* the SELL branch of execute_paper_trade for a held symbol
SellShares(portfolio, symbol, shares_to_sell, price) ==
    LET pos == portfolio.positions[symbol]
        left == pos.shares - shares_to_sell
    IN  [cash |-> portfolio.cash + MulDiv(shares_to_sell, price, 10000),
         positions |->
             IF Emptied(left) THEN Without(portfolio.positions, symbol)
             ELSE Put(portfolio.positions, symbol,
                      [shares |-> left, avg_cost |-> pos.avg_cost]),
         trade_history |-> portfolio.trade_history]

\* is_market_open(): Monday is weekday 0, the time of day is in minutes.
\* The market is open from 9:30 to 16:00 Eastern, both ends included.
IsMarketOpen(weekday, minute) ==
    IF weekday >= 5 THEN FALSE
    ELSE IF minute < 9 * 60 + 30 THEN FALSE
    ELSE IF minute > 16 * 60 THEN FALSE
    ELSE TRUE

\* the amount of a BUY: `if amount_dollars > portfolio['cash']` cuts it to
\* the cash available (the first spends what was asked)
AsAsked(amount_dollars, cash) == amount_dollars

Affordable(amount_dollars, cash) == Min2(amount_dollars, cash)

\* `if not market_open:` of execute_paper_trade (the first never refuses)
ClosedNever(market_open) == FALSE

Closed(market_open) == ~market_open

\* execute_paper_trade(symbol, action, amount_dollars, current_price, reason,
\* confidence): the portfolio after the call, whether it succeeded (and then
\* saved the portfolio file), whether it raised
ExecutePaperTrade(portfolio, market_open, symbol, action, amount_dollars, current_price, reason, confidence, quotes) ==
    LET failed == [portfolio |-> portfolio, success |-> FALSE, raised |-> FALSE]
        amount == Affordable(amount_dollars, portfolio.cash)
        shares_to_sell ==
            Min2(MulDiv(amount_dollars, 10000, current_price),
                 portfolio.positions[symbol].shares)
    IN  IF Closed(market_open) THEN failed
        ELSE IF action = "BUY"
        THEN IF amount < 100 THEN failed
             ELSE [portfolio |->
                       Recorded(BuyShares(portfolio, symbol, amount, current_price),
                                symbol, action,
                                MulDiv(amount, 10000, current_price),
                                current_price, amount, reason, confidence, quotes),
                   success |-> TRUE, raised |-> FALSE]
        ELSE IF action = "SELL"
        THEN IF symbol \notin DOMAIN portfolio.positions THEN failed
             ELSE IF portfolio.positions[symbol].shares <= 0 THEN failed
             ELSE [portfolio |->
                       Recorded(SellShares(portfolio, symbol, shares_to_sell,
                                           current_price),
                                symbol, action, shares_to_sell, current_price,
                                amount_dollars, reason, confidence, quotes),
                   success |-> TRUE, raised |-> FALSE]
        \* any other action reaches the trade record with `shares` unbound:
        \* the call raises
        ELSE [portfolio |-> portfolio, success |-> FALSE, raised |-> TRUE]

\* rec.get(key, default)
Get(rec, key, default) == IF key \in DOMAIN rec THEN rec[key] ELSE default

\* `if confidence < 0.6: continue` (the first skips below 0.5)
BelowHalf(confidence) == confidence < 500

TooUnsure(confidence) == confidence < 600

\* the amount auto_execute_trades computes for a recommendation, << >> where
\* it skips the recommendation
TradeAmount(portfolio, symbol, action, target_allocation, current_price) ==
    IF action = "BUY"
    THEN IF MulDiv(portfolio.cash, target_allocation, 100) < 1000 THEN << >>
         ELSE <<MulDiv(portfolio.cash, target_allocation, 100)>>
    ELSE IF action = "SELL"
    THEN IF symbol \notin DOMAIN portfolio.positions THEN << >>
         ELSE <<MulDiv(MulDiv(portfolio.positions[symbol].shares,
                              current_price, 10000),
                       target_allocation, 100)>>
    ELSE << >>

\* the state of the loop of auto_execute_trades after a trade was tried
AfterTrade(acc, rec, result, amount, current_price) ==
    IF ~result.success THEN acc
    ELSE [portfolio |-> result.portfolio,
          recommendation_history |->
              Append(acc.recommendation_history,
                     [symbol |-> rec.symbol, action |-> rec.action,
                      entry_price |-> current_price,
                      confidence |-> Get(rec, "confidence", 500),
                      reason |-> Get(rec, "reason", "Auto recommendation"),
                      auto_executed |-> TRUE]),
          \* the file as execute_paper_trade saved it
          file |-> [portfolio |-> result.portfolio,
                    recommendation_history |-> acc.recommendation_history],
          executed_trades |->
              Append(acc.executed_trades,
                     [symbol |-> rec.symbol, action |-> rec.action,
                      amount |-> amount, price |-> current_price])]

\* one recommendation of the loop of auto_execute_trades
AutoOne(acc, rec, market_open, quotes) ==
    LET confidence == Get(rec, "confidence", 500)
        target_allocation == Get(rec, "target_allocation_percent", 5)
        price_info == GetStockPrice(quotes, rec.symbol)
        amount == TradeAmount(acc.portfolio, rec.symbol, rec.action,
                              target_allocation, price_info.price)
    IN  IF TooUnsure(confidence) THEN acc
        ELSE IF ~price_info.success THEN acc
        ELSE IF amount = << >> THEN acc
        ELSE AfterTrade(acc, rec,
                        ExecutePaperTrade(acc.portfolio, market_open, rec.symbol,
                                          rec.action, amount[1], price_info.price,
                                          <<"[AUTO]", Get(rec, "reason",
                                                          "Auto recommendation")>>,
                                          confidence, quotes),
                        amount[1], price_info.price)

\* the loop of auto_execute_trades from recommendation i on
RECURSIVE AutoLoop(_, _, _, _, _)
AutoLoop(acc, recs, i, market_open, quotes) ==
    IF i > Len(recs) THEN acc
    ELSE AutoLoop(AutoOne(acc, recs[i], market_open, quotes), recs, i + 1,
                  market_open, quotes)

\* save_portfolio(), if any trade was executed
SavedAtEnd(acc) ==
    IF acc.executed_trades = << >> THEN acc
    ELSE [acc EXCEPT !.file = [portfolio |-> acc.portfolio,
                               recommendation_history |->
                                   acc.recommendation_history]]

\* auto_execute_trades(recommendations)
AutoExecuteTrades(portfolio, recommendation_history, file, recs, market_open, quotes) ==
    SavedAtEnd(AutoLoop([portfolio |-> portfolio,
                         recommendation_history |-> recommendation_history,
                         file |-> file, executed_trades |-> << >>],
                        recs, 1, market_open, quotes))

\* the recommendations given to auto_execute_trades
AppRecommendation(symbol, action, confidence, target_allocation_percent) ==
    [symbol |-> symbol, action |-> action, confidence |-> confidence,
     target_allocation_percent |-> target_allocation_percent, reason |-> "news"]

AppRecs ==
    {AppRecommendation("NVDA", "BUY", 600, 20),
     AppRecommendation("NVDA", "BUY", 599, 20),
     AppRecommendation("NVDA", "SELL", 850, 20),
     AppRecommendation("TSLA", "SELL", 850, 20),
     AppRecommendation("TSLA", "BUY", 700, 1),
     AppRecommendation("NVDA", "HOLD", 950, 1),
     [symbol |-> "NVDA", action |-> "BUY"]}

\* the portfolios the call starts from: the initial one, one after a manual
\* purchase of NVDA at $100.00, one after a purchase that left $5.00 of cash
AppPortfolios ==
    {InitialPortfolio,
     ExecutePaperTrade(InitialPortfolio, TRUE, "NVDA", "BUY", 2000000, 10000,
                       <<"manual">>, 1000, [s \in {"NVDA", "TSLA"} |-> <<10000>>]).portfolio,
     ExecutePaperTrade(InitialPortfolio, TRUE, "NVDA", "BUY",
                       INITIAL_CAPITAL - 500, 10000, <<"manual">>, 1000,
                       [s \in {"NVDA", "TSLA"} |-> <<10000>>]).portfolio}

\* whether the market is open during the call, and what get_stock_price finds
AppWorlds ==
    {[market_open |-> m, quotes |-> [NVDA |-> n, TSLA |-> <<5000>>]] :
        m \in BOOLEAN, n \in {<< >>, <<12500>>}}

NoFile == [portfolio |-> InitialPortfolio, recommendation_history |-> << >>]

NotCalled == [done |-> FALSE]

AppIdle ==
    /\ app_start = InitialPortfolio
    /\ app_portfolio = InitialPortfolio
    /\ app_rec_history = << >>
    /\ app_file = NoFile
    /\ app_recs = << >>
    /\ app_world = [market_open |-> FALSE, quotes |-> [NVDA |-> << >>, TSLA |-> << >>]]
    /\ app_result = NotCalled

AppInit ==
    /\ app_start \in AppPortfolios
    /\ app_portfolio = app_start
    /\ app_rec_history = << >>
    /\ app_file = [portfolio |-> app_start, recommendation_history |-> << >>]
    /\ app_recs \in SeqsUpTo(AppRecs, MaxRecs)
    /\ app_world \in AppWorlds
    /\ app_result = NotCalled

\* auto_execute_trades({"recommendations": recs}) is called and returns
AppAutoExecute ==
    /\ ~app_result.done
    /\ LET r == AutoExecuteTrades(app_portfolio, app_rec_history, app_file,
                                  app_recs, app_world.market_open,
                                  app_world.quotes)
       IN  /\ app_portfolio' = r.portfolio
           /\ app_rec_history' = r.recommendation_history
           /\ app_file' = r.file
           /\ app_result' = [done |-> TRUE, executed_trades |-> r.executed_trades]
    /\ UNCHANGED <<app_start, app_recs, app_world>>
    /\ UNCHANGED notApp

---------------------------------------------------------------------------
(* Calls of execute_paper_trade and auto_execute_trades one after the      *)
(* other, from the initial portfolio.  app_start is the portfolio before   *)
(* the last call, app_world the time of the call and the quotes, app_recs  *)
(* the recommendations of an automatic call.                               *)

\* the instants of the calls: Monday 9:29, 9:30, 16:00, 16:01, Saturday 10:00
TradeInstants ==
    {[weekday |-> 0, minute |-> 569], [weekday |-> 0, minute |-> 570],
     [weekday |-> 0, minute |-> 960], [weekday |-> 0, minute |-> 961],
     [weekday |-> 5, minute |-> 600]}

TradeWorlds ==
    {[now |-> now, market_open |-> IsMarketOpen(now.weekday, now.minute),
      quotes |-> [NVDA |-> <<10000>>, TSLA |-> <<5000>>]] :
        now \in TradeInstants}

\* the amounts typed into "Amount ($)", min_value 0.0: nothing, half a
\* dollar, $20,000, and $200,000, twice the initial capital
ManualAmounts == {0, 50, 2000000, 20000000}

\* the recommendations of the automatic calls
TradeRecs ==
    {<<AppRecommendation("NVDA", "BUY", 800, 10)>>,
     <<AppRecommendation("NVDA", "SELL", 700, 50),
       AppRecommendation("TSLA", "BUY", 900, 20)>>}

\* the button "Execute Manual Trade": get_stock_price, then
\* execute_paper_trade(symbol, action, amount, price, "Manual trade", 1.0)
ManualTrade(symbol, action, amount_dollars, world) ==
    LET price_info == GetStockPrice(world.quotes, symbol)
        r == ExecutePaperTrade(app_portfolio, world.market_open, symbol,
                               action, amount_dollars, price_info.price,
                               <<"Manual trade">>, 1000, world.quotes)
    IN  /\ Len(app_portfolio.trade_history) < MaxTrades
        /\ price_info.success
        /\ app_start' = app_portfolio
        /\ app_portfolio' = r.portfolio
        /\ app_file' = (IF r.success
                        THEN [portfolio |-> r.portfolio,
                              recommendation_history |-> app_rec_history]
                        ELSE app_file)
        /\ app_recs' = << >>
        /\ app_world' = world
        /\ app_result' = [done |-> TRUE, op |-> "execute_paper_trade",
                          symbol |-> symbol, action |-> action,
                          amount_dollars |-> amount_dollars,
                          current_price |-> price_info.price,
                          success |-> r.success]
        /\ UNCHANGED app_rec_history
        /\ UNCHANGED notApp

TradeManual ==
    \E symbol \in {"NVDA", "TSLA"}, action \in {"BUY", "SELL"},
       amount_dollars \in ManualAmounts, world \in TradeWorlds :
        ManualTrade(symbol, action, amount_dollars, world)

\* auto_execute_trades({"recommendations": recs})
AutoTrade(recs, world) ==
    LET r == AutoExecuteTrades(app_portfolio, app_rec_history, app_file, recs,
                               world.market_open, world.quotes)
    IN  /\ Len(app_portfolio.trade_history) < MaxTrades
        /\ app_start' = app_portfolio
        /\ app_portfolio' = r.portfolio
        /\ app_rec_history' = r.recommendation_history
        /\ app_file' = r.file
        /\ app_recs' = recs
        /\ app_world' = world
        /\ app_result' = [done |-> TRUE, op |-> "auto_execute_trades",
                          executed_trades |-> r.executed_trades]
        /\ UNCHANGED notApp

TradeAuto == \E recs \in TradeRecs, world \in TradeWorlds : AutoTrade(recs, world)

---------------------------------------------------------------------------
(* A session of the app: main() runs from top to bottom on every refresh   *)
(* of the page (the 30 s timer, a rerun, a click).  News are the sequence  *)
(* of the titles of the items fetched.  The file the portfolio is saved to *)
(* is NoFile while it does not exist, else                                 *)
(*   [portfolio, recommendation_history, current_recommendations,          *)
(*    last_news_hash].                                                     *)

\* the titles of the model, in the order sorted() puts them
TitleOrder == <<"fed holds", "nvidia slumps", "nvidia soars">>

Rank(title) == CHOOSE i \in 1..Len(TitleOrder) : TitleOrder[i] = title

\* sorted(titles)
RECURSIVE SortedTitles(_)
SortedTitles(titles) ==
    IF titles = << >> THEN << >>
    ELSE LET rest == SortedTitles(Tail(titles))
             before == SelectSeq(rest, LAMBDA t : Rank(t) < Rank(Head(titles)))
             after == SelectSeq(rest, LAMBDA t : Rank(t) >= Rank(Head(titles)))
         IN  before \o <<Head(titles)>> \o after

\* get_news_hash(news_data): the md5 digest of the sorted titles joined by
\* "|", which tells two joined strings apart
GetNewsHash(news_data) == [md5 |-> SortedTitles(news_data)]

\* news_changed, from st.session_state.get('last_news_hash') and the hash
\* of the news fetched (the first holds on every run)
NewsChangedAlways(previous_news_hash, current_news_hash) == TRUE

NewsChanged(previous_news_hash, current_news_hash) ==
    previous_news_hash = << >> \/ previous_news_hash[1] # current_news_hash

\* generate_trade_recommendations(news_data): what the engine makes of the
\* stories, or the failure dict when it raises
GenerateTradeRecommendations(news_data, raises) ==
    IF raises THEN [success |-> FALSE]
    ELSE [success |-> TRUE,
          recommendations |->
              (IF \E i \in 1..Len(news_data) : news_data[i] = "nvidia soars"
               THEN <<AppRecommendation("NVDA", "BUY", 800, 10)>> ELSE << >>)
              \o (IF \E i \in 1..Len(news_data) : news_data[i] = "nvidia slumps"
                  THEN <<AppRecommendation("NVDA", "SELL", 700, 50)>> ELSE << >>)]

\* save_portfolio()
SavePortfolio(portfolio, recommendation_history, current_recommendations, last_news_hash) ==
    [portfolio |-> portfolio, recommendation_history |-> recommendation_history,
     current_recommendations |-> current_recommendations,
     last_news_hash |-> last_news_hash]

\* no manual trade was made in the run
NoTrade == [called |-> FALSE]

\* the session and the file after auto_execute_trades returned r
AfterAuto(r, saved, recommendations, current_news_hash) ==
    [portfolio |-> r.portfolio,
     recommendation_history |-> r.recommendation_history,
     file |-> IF r.executed_trades = << >> THEN saved
              ELSE SavePortfolio(r.file.portfolio, r.file.recommendation_history,
                                 <<recommendations>>, <<current_news_hash>>),
     current_recommendations |-> <<recommendations>>,
     force_news_check |-> FALSE,
     auto_called |-> TRUE, executed |-> Len(r.executed_trades),
     manual |-> NoTrade]

\* the part of main() under "News & Analysis", after the hash was stored
\* and the portfolio saved
AfterAnalysis(ses, saved, recommendations, market_open, news_changed, current_news_hash, quotes) ==
    IF ~recommendations.success
    THEN [portfolio |-> ses.portfolio,
          recommendation_history |-> ses.recommendation_history,
          file |-> saved, current_recommendations |-> ses.current_recommendations,
          force_news_check |-> ses.force_news_check,
          auto_called |-> FALSE, executed |-> 0, manual |-> NoTrade]
    ELSE IF market_open /\ news_changed
    THEN AfterAuto(AutoExecuteTrades(ses.portfolio, ses.recommendation_history,
                                     [portfolio |-> saved.portfolio,
                                      recommendation_history |->
                                          saved.recommendation_history],
                                     recommendations.recommendations,
                                     market_open, quotes),
                   saved, recommendations, current_news_hash)
    ELSE [portfolio |-> ses.portfolio,
          recommendation_history |-> ses.recommendation_history,
          file |-> saved, current_recommendations |-> <<recommendations>>,
          force_news_check |-> ses.force_news_check,
          auto_called |-> FALSE, executed |-> 0, manual |-> NoTrade]

\* the tab "News & Analysis" of main()
NewsTab(ses, news_data, market_open, raises, quotes) ==
    AfterAnalysis(ses,
                  SavePortfolio(ses.portfolio, ses.recommendation_history,
                                ses.current_recommendations,
                                <<GetNewsHash(news_data)>>),
                  GenerateTradeRecommendations(news_data, raises),
                  market_open,
                  NewsChanged(ses.last_news_hash, GetNewsHash(news_data)),
                  GetNewsHash(news_data), quotes)

\* the session after the manual trade returned result
AfterManual(tab, trade, price, open_at_call, result) ==
    [tab EXCEPT
        !.portfolio = result.portfolio,
        !.file = IF result.success
                 THEN SavePortfolio(result.portfolio, tab.recommendation_history,
                                    tab.current_recommendations,
                                    tab.file.last_news_hash)
                 ELSE tab.file,
        !.manual = [called |-> TRUE, success |-> result.success]]

\* the tab "Paper Trading" of main(): the button "Execute Manual Trade",
\* clicked or not, behind the state tab the first tab left
ManualTab(tab, click, market_open, open_at_call, quotes) ==
    IF click = << >> \/ ~market_open THEN tab
    ELSE IF ~GetStockPrice(quotes, click[1].symbol).success THEN tab
    ELSE AfterManual(tab, click[1], GetStockPrice(quotes, click[1].symbol).price,
                     open_at_call,
                     ExecutePaperTrade(tab.portfolio, open_at_call,
                                       click[1].symbol, click[1].action,
                                       click[1].amount,
                                       GetStockPrice(quotes, click[1].symbol).price,
                                       <<"Manual trade">>, 1000, quotes))

\* the news feeds of the model; the second is the first in another order
Feeds ==
    {<<"nvidia soars", "fed holds">>, <<"fed holds", "nvidia soars">>,
     <<"nvidia slumps">>}

\* a click on "Execute Manual Trade", or none
Clicks ==
    {<< >>, <<[symbol |-> "NVDA", action |-> "BUY", amount |-> 2000000]>>,
     <<[symbol |-> "TSLA", action |-> "SELL", amount |-> 2000000]>>}

\* what get_stock_price finds during a run
SesQuotes == {[NVDA |-> <<10000>>, TSLA |-> <<5000>>]}

\* no run yet; since holds the buttons and restarts after the last run
NoRun == [op |-> "none", turn |-> 0, since |-> {}]

SesIdle ==
    /\ ses_market_open = FALSE
    /\ ses_news = << >>
    /\ ses_last_news_hash = << >>
    /\ ses_recommendations = << >>
    /\ ses_force_news_check = FALSE
    /\ ses_run = NoRun

SesInit ==
    /\ ses_market_open \in BOOLEAN
    /\ ses_news \in Feeds
    /\ ses_last_news_hash = << >>
    /\ ses_recommendations = << >>
    /\ ses_force_news_check = FALSE
    /\ ses_run = NoRun

\* the session state main() works on
Session ==
    [portfolio |-> app_portfolio, recommendation_history |-> app_rec_history,
     file |-> app_file, current_recommendations |-> ses_recommendations,
     last_news_hash |-> ses_last_news_hash,
     force_news_check |-> ses_force_news_check, manual |-> NoTrade]

\* the assignments of a run of main() that ended in the state r
RunEnds(r, raises, open_at_call) ==
    /\ app_portfolio' = r.portfolio
    /\ app_rec_history' = r.recommendation_history
    /\ app_file' = r.file
    /\ ses_last_news_hash' = <<GetNewsHash(ses_news)>>
    /\ ses_recommendations' = r.current_recommendations
    /\ ses_force_news_check' = r.force_news_check
    /\ ses_market_open' = (IF r.manual.called THEN open_at_call
                           ELSE ses_market_open)
    /\ ses_run' = [op |-> "run", turn |-> 1 - ses_run.turn, since |-> {},
                   market_open |-> ses_market_open,
                   previous |-> ses_last_news_hash,
                   current |-> GetNewsHash(ses_news),
                   analysed |-> ~raises,
                   auto_called |-> r.auto_called, executed |-> r.executed,
                   manual |-> r.manual]

\* main() runs to its end: the news are fetched and analysed, trades are
\* executed automatically, and a click on "Execute Manual Trade" is served
PageRun ==
    \E raises \in BOOLEAN, click \in Clicks, quotes \in SesQuotes,
       open_at_call \in {ses_market_open, FALSE} :
        /\ Len(app_portfolio.trade_history) < MaxTrades
        /\ RunEnds(ManualTab(NewsTab(Session, ses_news, ses_market_open,
                                     raises, quotes),
                             click, ses_market_open, open_at_call, quotes),
                   raises, open_at_call)
        /\ UNCHANGED ses_news
        /\ UNCHANGED notSes

\* the button "Refresh Data": the cache of fetch_news is cleared, the flag
\* is set, and the page is run again
RefreshData ==
    /\ ses_force_news_check' = TRUE
    /\ ses_run' = [ses_run EXCEPT !.since = @ \cup {"refresh_data"}]
    /\ UNCHANGED <<app_portfolio, app_rec_history, app_file, ses_market_open,
                   ses_news, ses_last_news_hash, ses_recommendations>>
    /\ UNCHANGED notSes

\* the button "Reset Portfolio"
ResetPortfolio ==
    /\ app_portfolio' = InitialPortfolio
    /\ app_rec_history' = << >>
    /\ ses_last_news_hash' = << >>
    /\ ses_recommendations' = << >>
    /\ app_file' = NoFile
    /\ ses_run' = [ses_run EXCEPT !.since = @ \cup {"reset"}]
    /\ UNCHANGED <<ses_market_open, ses_news, ses_force_news_check>>
    /\ UNCHANGED notSes

\* a new session of the browser: initialize_portfolio() loads the file
NewSession ==
    /\ app_portfolio' = app_file.portfolio
    /\ app_rec_history' = app_file.recommendation_history
    /\ ses_recommendations' =
           (IF app_file = NoFile THEN << >> ELSE app_file.current_recommendations)
    /\ ses_last_news_hash' =
           (IF app_file = NoFile THEN << >> ELSE app_file.last_news_hash)
    /\ ses_force_news_check' = FALSE
    /\ ses_run' = [ses_run EXCEPT !.since = @ \cup {"session"}]
    /\ UNCHANGED <<app_file, ses_market_open, ses_news>>
    /\ UNCHANGED notSes

\* the market opens or closes
MarketTurns ==
    /\ ses_market_open' = ~ses_market_open
    /\ UNCHANGED <<app_portfolio, app_rec_history, app_file, ses_news,
                   ses_last_news_hash, ses_recommendations,
                   ses_force_news_check, ses_run>>
    /\ UNCHANGED notSes

\* the feeds carry other news
NewsArrives ==
    /\ ses_news' \in Feeds \ {ses_news}
    /\ UNCHANGED <<app_portfolio, app_rec_history, app_file, ses_market_open,
                   ses_last_news_hash, ses_recommendations,
                   ses_force_news_check, ses_run>>
    /\ UNCHANGED notSes

---------------------------------------------------------------------------
(* The selection of the model in llm_provider.py.  A model name is the     *)
(* sequence of its parts, "gemini-1.5-pro-latest" being                    *)
(* <<"gemini", "-1.5-pro", "-latest">>; one name is a substring of another *)
(* when its parts are consecutive parts of the other.                      *)

\* `requested in m` for two names
Contains(m, requested) ==
    \E i \in 1..(Len(m) - Len(requested) + 1) :
        SubSeq(m, i, i + Len(requested) - 1) = requested

\* [m for m in names if requested in m]
Matching(names, requested) ==
    SelectSeq(names, LAMBDA m : Contains(m, requested))

GeminiDefault == <<"gemini", "-1.5-flash">>

OpenAIDefault == <<"gpt", "-4o-mini">>

Selected(model) == [done |-> TRUE, model |-> <<model>>, error |-> "none"]

Raised(error) == [done |-> TRUE, model |-> << >>, error |-> error]

\* GeminiProvider._select_model, with _get_supported_models
GeminiSelectModel(requested_model, supported_models, raises) ==
    IF raises THEN Raised("LLMError")
    ELSE IF supported_models = << >> THEN Raised("ModelNotFoundError")
    ELSE IF requested_model = << >>
    THEN IF \E i \in 1..Len(supported_models) : supported_models[i] = GeminiDefault
         THEN Selected(GeminiDefault)
         ELSE Selected(supported_models[1])
    ELSE IF Matching(supported_models, requested_model[1]) # << >>
    THEN Selected(Matching(supported_models, requested_model[1])[1])
    ELSE IF \E i \in 1..Len(supported_models) :
                supported_models[i] = requested_model[1]
    THEN Selected(requested_model[1])
    ELSE Raised("ModelNotFoundError")

\* OpenAIProvider._select_model
OpenAISelectModel(requested_model, available_ids, raises) ==
    IF requested_model = << >> THEN Selected(OpenAIDefault)
    ELSE IF raises THEN Selected(requested_model[1])
    ELSE IF \E i \in 1..Len(available_ids) : available_ids[i] = requested_model[1]
    THEN Selected(requested_model[1])
    ELSE IF Matching(available_ids, requested_model[1]) # << >>
    THEN Selected(Matching(available_ids, requested_model[1])[1])
    ELSE Selected(OpenAIDefault)

\* the model names of the model
ModelNames ==
    {<<"gemini", "-1.5-flash">>, <<"gemini", "-1.5-pro">>,
     <<"gemini", "-1.5-pro", "-latest">>, <<"gpt", "-4o-mini">>}

\* the names asked for: none, a listed name, a part of names, a stranger
RequestedModels ==
    {<< >>} \cup {<<m>> : m \in ModelNames}
        \cup {<<<<"gemini">>>>, <<<<"claude">>>>}

NotSelected == [done |-> FALSE]

SelIdle ==
    /\ sel_requested = << >>
    /\ sel_supported = << >>
    /\ sel_raises = FALSE
    /\ sel_gemini = NotSelected
    /\ sel_openai = NotSelected

SelInit ==
    /\ sel_requested \in RequestedModels
    /\ sel_supported \in SeqsUpTo(ModelNames, MaxModels)
    /\ sel_raises \in BOOLEAN
    /\ sel_gemini = NotSelected
    /\ sel_openai = NotSelected

\* GeminiProvider(model) is constructed
SelectGemini ==
    /\ ~sel_gemini.done
    /\ sel_gemini' = GeminiSelectModel(sel_requested, sel_supported, sel_raises)
    /\ UNCHANGED <<sel_requested, sel_supported, sel_raises, sel_openai>>
    /\ UNCHANGED notSel

\* OpenAIProvider(model) is constructed
SelectOpenAI ==
    /\ ~sel_openai.done
    /\ sel_openai' = OpenAISelectModel(sel_requested, sel_supported, sel_raises)
    /\ UNCHANGED <<sel_requested, sel_supported, sel_raises, sel_gemini>>
    /\ UNCHANGED notSel

\* the lengths of the daily history, around the minima of the indicators
TaBars == {14, 15, 19, 20, 21, 25, 26, 49, 50, 60}

\* what ticker.history(period="3mo", interval="1d") answers
TaHists ==
    {HistRaises}
        \cup {Hist(bars, rsi, above, cross[1], cross[2], roc, 100) :
                  bars \in TaBars, rsi \in {2000, 5000, 10000},
                  above \in BOOLEAN,
                  cross \in {<<TRUE, FALSE>>, <<FALSE, TRUE>>, <<FALSE, FALSE>>},
                  roc \in {-800, 800}}

NotComputed == [done |-> FALSE]

TaIdle ==
    /\ ta_hist = HistRaises
    /\ ta_result = NotComputed

TaInit ==
    /\ ta_hist \in TaHists
    /\ ta_result = NotComputed

\* technical.analyze(symbol) is called with nothing cached and returns
TaCompute ==
    LET r == TaAnalyze(ta_cache, "UBER", clock, ta_hist) IN
    /\ ~ta_result.done
    /\ ta_cache' = r.cache
    /\ ta_result' = [done |-> TRUE, result |-> r.result]
    /\ UNCHANGED ta_hist
    /\ UNCHANGED notTa

\* the "published" strings given to _parse_age_hours
AgeInputs ==
    {<< >>}
        \cup {<<Published(shape, wall, offset)>> :
                  shape \in {"rfc822", "rfc822_gmt", "iso_offset", "iso_frac_offset"},
                  wall \in -MaxAgeHours..MaxAgeHours, offset \in {-5, 0, 5}}
        \cup {<<Published(shape, wall, 0)>> :
                  shape \in {"iso", "iso_frac", "sql", "other"},
                  wall \in -MaxAgeHours..MaxAgeHours}

NotParsed == << >>

AgeIdle ==
    /\ age_published = << >>
    /\ age_result = <<1>>

AgeInit ==
    /\ age_published \in AgeInputs
    /\ age_result = NotParsed

\* engine._parse_age_hours(published_str, now) is called and returns
AgeParse ==
    /\ age_result = NotParsed
    /\ age_result' = <<ParseAgeHours(age_published)>>
    /\ UNCHANGED age_published
    /\ UNCHANGED notAge

InitAge ==
    CacheInit /\ SentIdle /\ SigIdle /\ DetIdle /\ EngIdle /\ AgeInit
        /\ AppIdle /\ TaIdle /\ SesIdle /\ SelIdle

NextAge == AgeParse

SpecAge == InitAge /\ [][NextAge]_vars

InitApp ==
    CacheInit /\ SentIdle /\ SigIdle /\ DetIdle /\ EngIdle /\ AgeIdle
        /\ AppInit /\ TaIdle /\ SesIdle /\ SelIdle

NextApp == AppAutoExecute

SpecApp == InitApp /\ [][NextApp]_vars

InitSelect ==
    CacheInit /\ SentIdle /\ SigIdle /\ DetIdle /\ EngIdle /\ AgeIdle
        /\ AppIdle /\ TaIdle /\ SesIdle /\ SelInit

NextSelect == SelectGemini \/ SelectOpenAI

SpecSelect == InitSelect /\ [][NextSelect]_vars

InitTrades ==
    CacheInit /\ SentIdle /\ SigIdle /\ DetIdle /\ EngIdle /\ AgeIdle
        /\ AppIdle /\ TaIdle /\ SesIdle /\ SelIdle

NextTrades == TradeManual \/ TradeAuto

SpecTrades == InitTrades /\ [][NextTrades]_vars

InitSession ==
    CacheInit /\ SentIdle /\ SigIdle /\ DetIdle /\ EngIdle /\ AgeIdle
        /\ AppIdle /\ TaIdle /\ SesInit /\ SelIdle

NextSession ==
    PageRun \/ RefreshData \/ ResetPortfolio \/ NewSession \/ MarketTurns
        \/ NewsArrives

SpecSession == InitSession /\ [][NextSession]_vars

InitTechnical ==
    CacheInit /\ SentIdle /\ SigIdle /\ DetIdle /\ EngIdle /\ AgeIdle
        /\ AppIdle /\ TaInit /\ SesIdle /\ SelIdle

NextTechnical == TaCompute

SpecTechnical == InitTechnical /\ [][NextTechnical]_vars

InitSentiment ==
    CacheInit /\ SentInit /\ SigIdle /\ DetIdle /\ EngIdle /\ AgeIdle
        /\ AppIdle /\ TaIdle /\ SesIdle /\ SelIdle

InitEngine ==
    CacheInit /\ SentIdle /\ SigIdle /\ DetIdle /\ EngInit /\ AgeIdle
        /\ AppIdle /\ TaIdle /\ SesIdle /\ SelIdle

NextEngine == EngAnalyze

SpecEngine == InitEngine /\ [][NextEngine]_vars

InitDetect ==
    CacheInit /\ SentIdle /\ SigIdle /\ DetInit /\ EngIdle /\ AgeIdle
        /\ AppIdle /\ TaIdle /\ SesIdle /\ SelIdle

NextDetect == DetDetect

SpecDetect == InitDetect /\ [][NextDetect]_vars

InitSignal ==
    CacheInit /\ SentIdle /\ SigInit /\ DetIdle /\ EngIdle /\ AgeIdle
        /\ AppIdle /\ TaIdle /\ SesIdle /\ SelIdle

NextSignal == SigGenerate

SpecSignal == InitSignal /\ [][NextSignal]_vars

NextSentiment == SentAnalyze

SpecSentiment == InitSentiment /\ [][NextSentiment]_vars

\* DynamicResolver.resolve(name)
Resolve(name, search) ==
    LET r == ResolveCall(resolver_cache, name, clock, search) IN
    /\ resolver_cache' = r.cache
    /\ ret' = [op |-> "resolve", key |-> CacheKey(name), now |-> clock,
               hit |-> r.hit, prior_at |-> StoredAt(resolver_cache, CacheKey(name)),
               value |-> r.ticker]
    /\ UNCHANGED <<clock, price_cache, ta_cache>>
    /\ UNCHANGED <<threads, notCache>>

\* ExchangePriceFilter.get_price_info(symbol)
PriceInfo(symbol, quote) ==
    LET r == GetPriceInfo(price_cache, symbol, clock, quote) IN
    /\ price_cache' = r.cache
    /\ ret' = [op |-> "price", key |-> symbol, now |-> clock,
               hit |-> r.hit, prior_at |-> StoredAt(price_cache, symbol),
               value |-> r.info]
    /\ UNCHANGED <<clock, resolver_cache, ta_cache>>
    /\ UNCHANGED <<threads, notCache>>

\* TechnicalAnalyzer.analyze(symbol)
Analyze(symbol, hist) ==
    LET r == TaAnalyze(ta_cache, symbol, clock, hist) IN
    /\ ta_cache' = r.cache
    /\ ret' = [op |-> "technical", key |-> symbol, now |-> clock,
               hit |-> r.hit, prior_at |-> StoredAt(ta_cache, symbol),
               value |-> r.result]
    /\ UNCHANGED <<clock, resolver_cache, price_cache>>
    /\ UNCHANGED <<threads, notCache>>

\* time passes, to a later one of the instants
Tick(instants) ==
    /\ \E t \in instants : t > clock /\ clock' = t
    /\ UNCHANGED <<resolver_cache, price_cache, ta_cache, ret>>
    /\ UNCHANGED <<threads, notCache>>

ResolveStep == \E name \in {"Uber", "UBER", " uber"}, search \in {SearchEmpty, SearchUber} :
                   Resolve(name, search)

PriceInfoStep == \E quote \in {QuoteRaises, QuoteListed} : PriceInfo("UBER", quote)

AnalyzeStep == \E hist \in {HistRaises, HistBull} : Analyze("UBER", hist)

\* the instants at which calls are made: around each TTL after the start
Instants == {t \in {0, 1, 2, 9, 10, 11, 29, 30, 31, 32} : t <= MaxClock}

TickStep == Tick(Instants)

Init ==
    CacheInit /\ SentIdle /\ SigIdle /\ DetIdle /\ EngIdle /\ AgeIdle
        /\ AppIdle /\ TaIdle /\ SesIdle /\ SelIdle

Next == ResolveStep \/ PriceInfoStep \/ AnalyzeStep \/ TickStep

Spec == Init /\ [][Next]_vars

---------------------------------------------------------------------------
(* The same lookups run by several threads.  A lookup reads the clock and  *)
(* checks the cache, then calls its collaborator (network I/O, during      *)
(* which other threads run), then stores the answer.  The source takes no  *)
(* lock and keeps no record of a fetch in flight.                          *)

FreshFor(op, key, now) ==
    CASE op = "resolve" -> ResolverFresh(resolver_cache, key, now)
      [] op = "price" -> PriceFresh(price_cache, key, now)
      [] op = "technical" -> TaFresh(ta_cache, key, now)

CachedFor(op, key) ==
    CASE op = "resolve" -> resolver_cache[key].ticker
      [] op = "price" ->
             [symbol |-> key, price |-> price_cache[key].price, success |-> TRUE]
      [] op = "technical" -> ta_cache[key].result

PriorAt(op, key) ==
    CASE op = "resolve" -> StoredAt(resolver_cache, key)
      [] op = "price" -> StoredAt(price_cache, key)
      [] op = "technical" -> StoredAt(ta_cache, key)

\* thread t enters a lookup: a fresh entry is returned at once, otherwise the
\* thread goes on to call the collaborator
BeginLookup(t, op, name) ==
    LET key == IF op = "resolve" THEN CacheKey(name) ELSE name IN
    /\ threads[t].state = "idle"
    /\ IF FreshFor(op, key, clock)
       THEN /\ ret' = [op |-> op, key |-> key, now |-> clock, hit |-> TRUE,
                       prior_at |-> PriorAt(op, key), value |-> CachedFor(op, key)]
            /\ UNCHANGED threads
       ELSE /\ threads' = [threads EXCEPT ![t] =
                              [state |-> "fetching", op |-> op, key |-> key,
                               name |-> name, now |-> clock]]
            /\ UNCHANGED ret
    /\ UNCHANGED <<clock, resolver_cache, price_cache, ta_cache>>
    /\ UNCHANGED notCache

\* the collaborator answers thread t, which stores and returns the answer
EndLookup(t, search, quote, hist) ==
    /\ threads[t].state = "fetching"
    /\ LET th == threads[t]
           r == CASE th.op = "resolve" ->
                         ResolveCall(EmptyDict, th.name, th.now, search)
                  [] th.op = "price" ->
                         GetPriceInfo(EmptyDict, th.key, th.now, quote)
                  [] th.op = "technical" ->
                         TaAnalyze(EmptyDict, th.key, th.now, hist)
           stored == th.key \in DOMAIN r.cache
       IN  /\ resolver_cache' = IF th.op = "resolve"
                                THEN Put(resolver_cache, th.key, r.cache[th.key])
                                ELSE resolver_cache
           /\ price_cache' = IF th.op = "price" /\ stored
                             THEN Put(price_cache, th.key, r.cache[th.key])
                             ELSE price_cache
           /\ ta_cache' = IF th.op = "technical"
                          THEN Put(ta_cache, th.key, r.cache[th.key])
                          ELSE ta_cache
           /\ ret' = [op |-> th.op, key |-> th.key, now |-> th.now, hit |-> FALSE,
                      prior_at |-> PriorAt(th.op, th.key),
                      value |-> CASE th.op = "resolve" -> r.ticker
                                  [] th.op = "price" -> r.info
                                  [] th.op = "technical" -> r.result]
    /\ threads' = [threads EXCEPT ![t] = Idle]
    /\ UNCHANGED clock
    /\ UNCHANGED notCache

BeginStep == \E t \in Threads, call \in {<<"resolve", "Uber">>, <<"resolve", "UBER">>,
                                          <<"price", "UBER">>, <<"technical", "UBER">>} :
                 BeginLookup(t, call[1], call[2])

EndStep == \E t \in Threads, search \in {SearchEmpty, SearchUber} :
               EndLookup(t, search, QuoteListed, HistBull)

ConcTick == Tick({1, 2})

NextConc == BeginStep \/ EndStep \/ ConcTick

SpecConc == Init /\ [][NextConc]_vars

---------------------------------------------------------------------------
(* C2: concurrent lookups of one key against a missing or expired entry    *)
(* collapse to a single fetch: no two threads are ever calling the         *)
(* collaborator for the same key of the same cache at the same time.       *)

C2_SingleFetch ==
    \A t1 \in Threads, t2 \in Threads :
        (t1 # t2 /\ threads[t1].state = "fetching" /\ threads[t2].state = "fetching")
        => ~(threads[t1].op = threads[t2].op /\ threads[t1].key = threads[t2].key)

---------------------------------------------------------------------------
(* C1: each of the three caches (resolver 30 minutes, price 2 minutes,     *)
(* technical 10 minutes) returns a cached value only when the entry is     *)
(* strictly younger than the TTL at the time of the lookup; an entry at or *)
(* past its TTL is never returned, the collaborator is consulted and what  *)
(* it answers is stored with the time of the lookup.                       *)

TTLRule(ttl, cache) ==
    /\ ret.hit => /\ ret.prior_at >= 0
                  /\ ret.now - ret.prior_at < ttl
                  /\ StoredAt(cache, ret.key) = ret.prior_at
    /\ (ret.prior_at >= 0 /\ ret.now - ret.prior_at >= ttl) => ~ret.hit
    /\ (~ret.hit /\ ret.op = "price" /\ ~ret.value.success) =>
           StoredAt(cache, ret.key) = ret.prior_at
    /\ (~ret.hit /\ (ret.op = "price" => ret.value.success)) =>
           StoredAt(cache, ret.key) = ret.now

C1_CachesHonourTTL ==
    /\ ret.op = "resolve" =>
           /\ TTLRule(30, resolver_cache)
           /\ ret.key \in DOMAIN resolver_cache
           /\ resolver_cache[ret.key].ticker = ret.value
    /\ ret.op = "price" =>
           /\ TTLRule(2, price_cache)
           /\ ret.value.success =>
                  /\ ret.key \in DOMAIN price_cache
                  /\ price_cache[ret.key].price = ret.value.price
    /\ ret.op = "technical" =>
           /\ TTLRule(10, ta_cache)
           /\ ret.key \in DOMAIN ta_cache
           /\ ta_cache[ret.key].result = ret.value

\* a resolver entry exactly 30 minutes old was looked up and fetched again
C1_Witness ==
    /\ ret.op = "resolve"
    /\ ret.prior_at >= 0
    /\ ret.now - ret.prior_at = 30
    /\ ~ret.hit

---------------------------------------------------------------------------
(* C5: for every text, SentimentAnalyzer.analyze returns a score within    *)
(* [-1, 1], also when the only contribution is a lexicon word scaled by an *)
(* intensifier above 1.                                                    *)

C5_ScoreInRange ==
    sent_result # Pending =>
        (sent_result.score >= -10000 /\ sent_result.score <= 10000)

---------------------------------------------------------------------------
(* The price filter called again and again as time passes.                 *)

\* the batches given to filter
FilterBatches == {<< >>, <<"UBER">>, <<"NVDA">>, <<"UBER", "UBER">>,
                  <<"NVDA", "UBER">>, <<"UBER", "NVDA">>}

\* what the quote collaborator may answer for a symbol
FilterQuotes(symbol) ==
    IF symbol = "UBER"
    THEN {QuoteRaises, QuoteNoPrice, QuoteAtMin, QuoteBelowMin}
    ELSE {QuoteRaises, QuoteListed, QuoteLondon}

Range(seq) == {seq[i] : i \in 1..Len(seq)}

\* price_filter.filter(tickers); ret keeps the cache entries of the batch's
\* tickers as they were before the call
FilterCall(tickers, quotes) ==
    LET r == Filter(price_cache, tickers, clock, quotes) IN
    /\ price_cache' = r.cache
    /\ ret' = [op |-> "filter", tickers |-> tickers, quotes |-> quotes,
               now |-> clock,
               prior |-> [s \in DOMAIN price_cache \cap Range(tickers) |->
                              price_cache[s]],
               value |-> r.valid]
    /\ UNCHANGED <<clock, resolver_cache, ta_cache>>
    /\ UNCHANGED <<threads, notCache>>

FilterStep ==
    \E tickers \in FilterBatches :
        \E quotes \in {q \in [Range(tickers) -> UNION {FilterQuotes(s) : s \in Range(tickers)}] :
                          \A s \in Range(tickers) : q[s] \in FilterQuotes(s)} :
            FilterCall(tickers, quotes)

FilterTick == Tick({1, 2})

NextFilter == FilterStep \/ FilterTick

SpecFilter == Init /\ [][NextFilter]_vars

---------------------------------------------------------------------------
(* C8: every ticker of the map detect returns is in the configured         *)
(* tradeable universe, whichever of the alias match, the symbol match and  *)
(* the dynamic resolver produced it.                                       *)

C8_OnlyTradeable ==
    det_result.done => DOMAIN det_result.detected \subseteq det_tradeable

(* C8, as the code has it: every ticker of the map detect returns is in    *)
(* the tradeable universe or was resolved by the dynamic resolver, that is *)
(* it is the symbol of one of the first three quotes, on an accepted       *)
(* exchange, that the symbol search answered for a capitalized word or an  *)
(* uppercase run of the text.                                              *)

C8_TradeableOrResolved ==
    det_result.done =>
        \A t \in DOMAIN det_result.detected :
            \/ t \in det_tradeable
            \/ \E i \in 1..Len(det_text) :
                    /\ det_text[i] \in DOMAIN det_search
                    /\ ~det_search[det_text[i]].raised
                    /\ \E j \in 1..Len(det_search[det_text[i]].quotes) :
                           /\ j <= 3
                           /\ det_search[det_text[i]].quotes[j].symbol = t
                           /\ det_search[det_text[i]].quotes[j].exchange
                                  \in {"NMS", "NGM", "NCM", "NYQ", "NYSE",
                                       "NASDAQ", "NasijdaqGS", "PCX"}

\* a text naming Uber, Tesla and NVDA with Tesla outside the universe: Uber
\* and Tesla come back, found by the resolver, next to the symbol match NVDA
C8_Witness ==
    /\ det_result.done
    /\ "TSLA" \notin det_tradeable
    /\ "UBER" \in DOMAIN det_result.detected
    /\ "TSLA" \in DOMAIN det_result.detected
    /\ "NVDA" \in DOMAIN det_result.detected
    /\ det_result.ticker_hits["NVDA"] = 1

---------------------------------------------------------------------------
(* C9: filter returns exactly the input tickers whose lookup, a fresh      *)
(* cache entry or else the quote collaborator, yields a price of at least  *)
(* the minimum, each mapped to that price; a ticker whose lookup raises or *)
(* has no price is left out without stopping the rest of the batch.        *)

\* what the lookup of symbol yields in the call ret describes: <<price>> in
\* cents, or << >> when there is none
C9_Yield(symbol) ==
    IF /\ symbol \in DOMAIN ret.prior
       /\ ret.now - ret.prior[symbol].cached_at < 2
    THEN <<ret.prior[symbol].price>>
    ELSE LET q == ret.quotes[symbol] IN
         IF q.raised THEN << >>
         ELSE IF "currentPrice" \in DOMAIN q.info /\ q.info.currentPrice # 0
         THEN <<RoundCents(q.info.currentPrice)>>
         ELSE IF "regularMarketPrice" \in DOMAIN q.info
         THEN <<RoundCents(q.info.regularMarketPrice)>>
         ELSE << >>

---------------------------------------------------------------------------
(* C10: every ticker filter returns is listed on an accepted exchange: a   *)
(* ticker whose quote reports an exchange outside VALID_EXCHANGES is left  *)
(* out even at a price of at least the minimum.                            *)

C10_AcceptedExchange ==
    ret.op = "filter" =>
        \A s \in DOMAIN ret.value :
            LET q == ret.quotes[s] IN
            (~q.raised /\ "exchange" \in DOMAIN q.info)
                => q.info.exchange \in VALID_EXCHANGES

---------------------------------------------------------------------------
(* C3: in a run of analyze_stories every ticker of a story analysis handed *)
(* to generate, and so every symbol of the recommendations returned, is a  *)
(* key of the price filter's result of the run; a ticker whose price       *)
(* lookup failed or was below the minimum is in no recommendation, though  *)
(* it may be in the trace story_details.                                   *)

C3_OnlyPriceFiltered ==
    eng_result.done =>
        LET out == eng_result.out IN
        /\ \A i \in 1..Len(out.handed) :
               \A j \in 1..Len(out.handed[i].tickers) :
                   out.handed[i].tickers[j][1] \in DOMAIN out.valid_prices
        /\ \A i \in 1..Len(out.recommendations) :
               LET q == eng_world.quotes[out.recommendations[i].symbol] IN
               /\ out.recommendations[i].symbol \in DOMAIN out.valid_prices
               /\ ~q.raised
               /\ QuotedPrice(q.info) # << >>
               /\ RoundCents(QuotedPrice(q.info)[1]) >= 800

\* a run that returned a recommendation while a ticker of the trace had
\* failed the price filter
C3_Witness ==
    /\ eng_result.done
    /\ eng_result.out.recommendations # << >>
    /\ \E i \in 1..Len(eng_result.out.story_details) :
           \E t \in DOMAIN eng_result.out.story_details[i].combined_tickers :
               t \notin DOMAIN eng_result.out.valid_prices

---------------------------------------------------------------------------
(* C4: a recommendation of generate is BUY exactly when its blended score  *)
(* is strictly above 0.15 and its blended confidence at least 0.3, SELL    *)
(* exactly when the score is strictly below -0.15 and the confidence at    *)
(* least 0.3, and HOLD otherwise; a score of exactly 0.15 or -0.15 is HOLD.*)

C4_ActionThresholds ==
    \A i \in 1..Len(sig_recs) :
        LET r == sig_recs[i]
            \* 0.3 of confidence is 300000 millionths, 0.15 of score 1500/10000
            confident == r.confidence_num >= 300000 * r.confidence_den
            above == r.score_num > 1500 * r.score_den
            below == r.score_num < (-1500) * r.score_den
        IN  /\ r.action = "BUY" <=> (above /\ confident)
            /\ r.action = "SELL" <=> (below /\ confident)
            /\ r.action = "HOLD" <=> ~((above \/ below) /\ confident)

\* a recommendation whose blended score is exactly 0.15, at a confidence of at
\* least 0.3, is HOLD
C4_Witness ==
    \E i \in 1..Len(sig_recs) :
        /\ sig_recs[i].score_num = 1500 * sig_recs[i].score_den
        /\ sig_recs[i].confidence_num >= 300000 * sig_recs[i].confidence_den
        /\ sig_recs[i].action = "HOLD"

---------------------------------------------------------------------------
(* C6: every recommendation analyze_stories returns has an aggregated      *)
(* score within [-1, 1], for the sentiment scores of SentimentAnalyzer and *)
(* the technical scores of TechnicalAnalyzer, with or without a technical  *)
(* snapshot.                                                               *)

C6_BlendedScoreInRange ==
    eng_result.done =>
        \A i \in 1..Len(eng_result.out.recommendations) :
            /\ eng_result.out.recommendations[i].aggregated_score >= -10000
            /\ eng_result.out.recommendations[i].aggregated_score <= 10000

---------------------------------------------------------------------------
(* C7: in the list generate returns every BUY or SELL precedes every HOLD, *)
(* and within the BUY/SELL group and within the HOLD group the confidence  *)
(* never increases along the list.                                         *)

C7_Ordering ==
    \A i \in 1..Len(sig_recs), j \in 1..Len(sig_recs) :
        i < j =>
            LET a == sig_recs[i]
                b == sig_recs[j]
            IN  /\ a.action = "HOLD" => b.action = "HOLD"
                /\ (a.action = "HOLD" <=> b.action = "HOLD")
                       => a.confidence >= b.confidence

---------------------------------------------------------------------------
(* C11: when no story of the input yields a ticker (an empty list, stories *)
(* without text, stories whose text names no company), analyze_stories     *)
(* returns a successful result with no recommendation, tickers_detected 0  *)
(* and stories_analyzed the number of stories given, and neither the price *)
(* filter nor the technical analyzer asks its collaborator.                *)

C11_NoTickers ==
    (/\ eng_result.done
     /\ \A i \in 1..Len(eng_result.out.story_details) :
            eng_result.out.story_details[i].combined_tickers = EmptyDict)
    => /\ eng_result.out.success
       /\ eng_result.out.recommendations = << >>
       /\ eng_result.out.tickers_detected = 0
       /\ eng_result.out.stories_analyzed = Len(eng_stories)
       /\ ~eng_result.out.filtered
       /\ price_cache = EmptyDict
       /\ ta_cache = EmptyDict

\* a run over a story without text and a story whose text names no company
C11_Witness ==
    /\ eng_result.done
    /\ Len(eng_stories) = 2
    /\ StoryText(eng_stories[1]) = << >>
    /\ StoryText(eng_stories[2]) = <<"report">>
    /\ eng_result.out.stories_analyzed = 2
    /\ eng_result.out.recommendations = << >>


---------------------------------------------------------------------------
(* C12: story_details has exactly one entry, in the order of the input,    *)
(* for every story whose text (its "text", or else title and summary) is   *)
(* not empty, with or without tickers; a story without text has no entry,  *)
(* and a story without tickers is in the trace but not among the analyses  *)
(* given to the signal generator.                                          *)

C12_TraceEveryText ==
    eng_result.done =>
        LET texts == [i \in 1..Len(eng_stories) |->
                         IF eng_stories[i].text # << >> THEN eng_stories[i].text
                         ELSE eng_stories[i].title \o eng_stories[i].summary]
            NonEmpty(t) == t # << >>
            details == eng_result.out.story_details
        IN  /\ [k \in 1..Len(details) |-> details[k].snippet]
                   = SelectSeq(texts, NonEmpty)
            /\ \A k \in 1..Len(eng_result.out.handed) :
                   \A d \in 1..Len(details) :
                       details[d].snippet = eng_result.out.handed[k].story_snippet
                           => details[d].combined_tickers # EmptyDict

\* a run over a story without text, a story without tickers and a story with
\* a ticker: two trace entries, one analysis for the signal generator
C12_Witness ==
    /\ eng_result.done
    /\ Len(eng_stories) = 3
    /\ Len(eng_result.out.story_details) = 2
    /\ eng_result.out.story_details[1].combined_tickers = EmptyDict
    /\ eng_result.out.story_details[2].combined_tickers # EmptyDict
    /\ Len(eng_result.out.handed) = 1


---------------------------------------------------------------------------
(* C13: when the technical analysis of a ticker that passed the price      *)
(* filter fails, analyze_stories still returns, and the recommendation of  *)
(* that ticker comes from sentiment alone: its score is the aggregated     *)
(* sentiment score, its confidence the sentiment confidence, and it has    *)
(* neither technical score nor technical indicators.                       *)

C13_SentimentOnly ==
    eng_result.done =>
        \A k \in 1..Len(eng_result.out.raw_recs) :
            LET r == eng_result.out.raw_recs[k]
                t == r.symbol
                m == Mentions(eng_result.out.handed)
                count == SumField(m, t, "story_count")
                cs == SumField(m, t, "confidence_sum")
            IN  (/\ t \in DOMAIN eng_result.out.valid_prices
                 /\ t \in DOMAIN ta_cache
                 /\ ~ta_cache[t].result.success)
                => /\ eng_result.out.success
                   /\ r.technical_score = << >>
                   /\ r.technical_indicators = << >>
                   /\ r.aggregated_score = r.sentiment_score
                   /\ r.score_num = SumField(m, t, "weighted_score_sum")
                   /\ r.score_den = SumField(m, t, "weight_sum")
                   /\ r.confidence_num
                          = Min2(cs * Min2(3, count), 3000000 * count)
                   /\ r.confidence_den = 3 * count

\* NVDA passed the price filter and its history could not be fetched, TSLA
\* was analysed: NVDA is recommended on sentiment, TSLA on the blend
C13_Witness ==
    /\ eng_result.done
    /\ "NVDA" \in DOMAIN eng_result.out.valid_prices
    /\ "NVDA" \in DOMAIN ta_cache
    /\ ~ta_cache["NVDA"].result.success
    /\ "TSLA" \in DOMAIN eng_result.out.technical_scores
    /\ \E k \in 1..Len(eng_result.out.raw_recs) :
           /\ eng_result.out.raw_recs[k].symbol = "NVDA"
           /\ eng_result.out.raw_recs[k].technical_score = << >>
           /\ eng_result.out.raw_recs[k].aggregated_score < 0
    /\ \E k \in 1..Len(eng_result.out.raw_recs) :
           /\ eng_result.out.raw_recs[k].symbol = "TSLA"
           /\ eng_result.out.raw_recs[k].technical_score # << >>


---------------------------------------------------------------------------
(* C14: once resolve has stored "no ticker" for a name, every resolve of a *)
(* name with the same lowercased trimmed form less than 30 minutes later   *)
(* returns none from the cache, without a symbol search; the search is     *)
(* made again only when the entry is 30 minutes old or older.              *)

C14_NegativeCached ==
    \* a resolve that returned none leaves a "no ticker" entry for its key
    /\ [](ret.op = "resolve" /\ ret.value = None
              => /\ ret.key \in DOMAIN resolver_cache
                 /\ resolver_cache[ret.key].ticker = None
                 /\ ~ret.hit => resolver_cache[ret.key].cached_at = ret.now)
    \* and a resolve that finds such an entry answers from it while it is
    \* less than 30 minutes old, and searches again otherwise
    /\ [][(/\ ret'.op = "resolve"
            /\ clock' = clock
            /\ ret'.key \in DOMAIN resolver_cache
            /\ resolver_cache[ret'.key].ticker = None)
           => IF clock - resolver_cache[ret'.key].cached_at < 30
              THEN /\ ret'.hit
                   /\ ret'.value = None
                   /\ resolver_cache' = resolver_cache
              ELSE /\ ~ret'.hit
                   /\ resolver_cache'[ret'.key].cached_at = clock]_vars

\* a name whose search found nothing at minute 0 is resolved at minute 29
\* from the cache
C14_Witness ==
    /\ ret.op = "resolve"
    /\ ret.key = "uber"
    /\ ret.hit
    /\ ret.value = None
    /\ ret.prior_at = 0
    /\ ret.now = 29


---------------------------------------------------------------------------
(* C15: of two calls of TechnicalAnalyzer.analyze for one ticker made less *)
(* than 10 minutes apart, the second returns the result of the first and   *)
(* fetches no price history, whether the first gave a snapshot or a        *)
(* failure: a failed analysis is cached as a successful one is.            *)

C15_AnalysisCached ==
    \* an analysis that fetched leaves its result, failed or not, in the cache
    /\ [](ret.op = "technical" /\ ~ret.hit
              => /\ ret.key \in DOMAIN ta_cache
                 /\ ta_cache[ret.key] = [result |-> ret.value, cached_at |-> ret.now])
    \* and an analysis less than 10 minutes after it returns that result
    \* without a fetch
    /\ [][(/\ ret'.op = "technical"
            /\ clock' = clock
            /\ ret'.key \in DOMAIN ta_cache
            /\ clock - ta_cache[ret'.key].cached_at < 10)
           => /\ ret'.hit
              /\ ret'.value = ta_cache[ret'.key].result
              /\ ta_cache' = ta_cache]_vars

\* a failed analysis of minute 0 is returned again at minute 9
C15_Witness ==
    /\ ret.op = "technical"
    /\ ret.hit
    /\ ~ret.value.success
    /\ ret.prior_at = 0
    /\ ret.now = 9


---------------------------------------------------------------------------
(* C16: for a publish string of any accepted shape (RFC-822; ISO-8601 with *)
(* or without offset and with or without fractional seconds; YYYY-MM-DD    *)
(* HH:MM:SS) the story age is the time elapsed between the instant the     *)
(* string denotes and now, in hours and at least 0; the default of 1 hour  *)
(* is used only for an empty string or one of no accepted shape.           *)

C16_AgeIsElapsed ==
    (age_result # NotParsed /\ age_published # << >>
        /\ age_published[1].shape # "other")
    => age_result[1]
           = Max2(0, age_published[1].wall + age_published[1].offset)

\* the same for the strings the format list does parse and whose offset is
\* that of the local zone
C16_AgeOfParsedLocal ==
    (age_result # NotParsed /\ age_published # << >>
        /\ age_published[1].shape \notin {"other", "iso_frac"}
        /\ age_published[1].offset = 0)
    => age_result[1] = Max2(0, age_published[1].wall)


---------------------------------------------------------------------------
(* C17: the recommendations returned by analyze_stories are a prefix of    *)
(* the signal generator's ordered list after the optional removal of HOLD: *)
(* with filter_hold no returned recommendation is a HOLD, and for every    *)
(* max_recommendations >= 0 at most that many are returned, only later     *)
(* entries of the ordering being dropped.                                  *)

C17_PrefixOfSignals ==
    (eng_result.done /\ eng_result.out.filtered) =>
        LET recs == eng_result.out.recommendations
            NotHold(r) == r.action # "HOLD"
            kept == IF eng_args.filter_hold
                    THEN SelectSeq(eng_result.out.raw_recs, NotHold)
                    ELSE eng_result.out.raw_recs
        IN  /\ eng_args.filter_hold =>
                   \A k \in 1..Len(recs) : recs[k].action # "HOLD"
            /\ Len(recs) <= eng_args.max_recommendations
            /\ Len(recs) <= Len(kept)
            /\ \A k \in 1..Len(recs) : recs[k] = kept[k]

\* a run with filter_hold and max_recommendations = 1 in which the signal
\* generator gave a HOLD and two other recommendations: one is returned
C17_Witness ==
    /\ eng_result.done
    /\ eng_args.filter_hold
    /\ eng_args.max_recommendations = 1
    /\ Len(eng_result.out.raw_recs) >= 3
    /\ \E k \in 1..Len(eng_result.out.raw_recs) :
           eng_result.out.raw_recs[k].action = "HOLD"
    /\ Cardinality({k \in 1..Len(eng_result.out.raw_recs) :
                       eng_result.out.raw_recs[k].action # "HOLD"}) >= 2
    /\ Len(eng_result.out.recommendations) = 1
    /\ eng_result.out.recommendations[1] = eng_result.out.raw_recs[1]


---------------------------------------------------------------------------
(* C18: the target allocation percent of every recommendation is an        *)
(* integer from 1 to 20, whatever the confidence and the blended score, a  *)
(* blended score of 0 and a HOLD included.                                 *)

C18_AllocationInRange ==
    sig_done =>
        \A k \in 1..Len(sig_recs) :
            sig_recs[k].target_allocation_percent \in 1..20

\* two stories of opposite scores cancel: a HOLD of blended score 0 is
\* given 1 percent
C18_Witness ==
    /\ sig_done
    /\ \E k \in 1..Len(sig_recs) :
           /\ sig_recs[k].score_num = 0
           /\ sig_recs[k].action = "HOLD"
           /\ sig_recs[k].story_count = 2
           /\ sig_recs[k].target_allocation_percent = 1


---------------------------------------------------------------------------
(* C19: auto_execute_trades makes a paper trade of a recommendation only   *)
(* if its action is BUY or SELL and its confidence is at least 0.6: every  *)
(* trade the call appended to the trade history and every entry it         *)
(* appended to the recommendation history is that of such a                *)
(* recommendation, and recommendations that are HOLD or of lower           *)
(* confidence leave the portfolio unchanged.                               *)

C19_OnlyExecutable ==
    app_result.done =>
        LET Executable(rec) ==
                /\ rec.action \in {"BUY", "SELL"}
                /\ "confidence" \in DOMAIN rec
                /\ rec.confidence >= 600
            From(entry) ==
                \E i \in 1..Len(app_recs) :
                    /\ Executable(app_recs[i])
                    /\ entry.symbol = app_recs[i].symbol
                    /\ entry.action = app_recs[i].action
                    /\ entry.confidence = app_recs[i].confidence
            before == Len(app_start.trade_history)
            after == Len(app_portfolio.trade_history)
            executable == {i \in 1..Len(app_recs) : Executable(app_recs[i])}
        IN  /\ SubSeq(app_portfolio.trade_history, 1, before)
                   = app_start.trade_history
            /\ \A k \in (before + 1)..after : From(app_portfolio.trade_history[k])
            /\ \A k \in 1..Len(app_rec_history) : From(app_rec_history[k])
            /\ after - before <= Cardinality(executable)
            /\ Len(app_rec_history) = after - before
            /\ executable = {} => app_portfolio = app_start

\* the call was given a HOLD of confidence 0.95 and a BUY of confidence 0.6
\* with the market open: one trade, the BUY, was made
C19_Witness ==
    /\ app_result.done
    /\ app_recs = <<AppRecommendation("NVDA", "HOLD", 950, 1),
                    AppRecommendation("NVDA", "BUY", 600, 20)>>
    /\ Len(app_portfolio.trade_history) = Len(app_start.trade_history) + 1
    /\ app_portfolio.trade_history[Len(app_portfolio.trade_history)].action = "BUY"
    /\ app_portfolio.cash < app_start.cash
    /\ Len(app_rec_history) = 1


---------------------------------------------------------------------------
(* C20: for a text made of a negation word and, right after it, one        *)
(* lexicon word w of non-zero score, SentimentAnalyzer.analyze returns     *)
(* -0.75 times the score of w, of the sign opposite to that of analyze(w); *)
(* the negation reaches only the token right after the negation word.      *)

C20_NegationFlips ==
    sent_result # Pending =>
        LET Scored(w) == w \in DOMAIN SingleWord /\ SingleWord[w] # 0
            Phrase(a, b) == \E ph \in MultiWord : ph[1] = a /\ ph[2] = b
            t == sent_text
        IN  /\ (Len(t) = 2 /\ t[1] \in NEGATION_WORDS /\ Scored(t[2]))
                => /\ 4 * sent_result.score = -3 * SingleWord[t[2]]
                   /\ Sgn(sent_result.score)
                          = -Sgn(SentimentAnalyze(<<t[2]>>).score)
                   /\ sent_result.word_hits = 1
            \* a second word is scored as it stands
            /\ (Len(t) = 3 /\ t[1] \in NEGATION_WORDS /\ Scored(t[2])
                    /\ Scored(t[3]) /\ ~Phrase(t[2], t[3]))
                => /\ sent_result.score
                          = RoundDiv(-3 * SingleWord[t[2]] + 4 * SingleWord[t[3]], 8)
                   /\ sent_result.word_hits = 2
            \* and a word behind a word without score is not negated
            /\ (Len(t) = 3 /\ t[1] \in NEGATION_WORDS
                    /\ t[2] \notin DOMAIN SingleWord \cup NEGATION_WORDS
                    /\ Intensifier(t[2]) = 100
                    /\ Scored(t[3]) /\ ~Phrase(t[2], t[3]))
                => sent_result.score = SingleWord[t[3]]

\* "never bankruptcy" was analysed: 0.7125, where "bankruptcy" has -0.95
C20_Witness ==
    /\ sent_text = <<"never", "bankruptcy">>
    /\ sent_result # Pending
    /\ sent_result.score = 7125
    /\ sent_result.sentiment = "positive"


---------------------------------------------------------------------------
(* C21: in detect, a ticker found only by the dynamic resolver gets the    *)
(* pseudo hit-count max(1, round(relevance * 3)), 2 for a capitalized-word *)
(* candidate (relevance 0.7) and 3 for an uppercase-run candidate          *)
(* (relevance 0.9), and a ticker already hit by an alias or a symbol match *)
(* keeps its own hit-count.                                                *)

C21_PseudoHitCount ==
    det_result.done =>
        \A t \in DOMAIN det_result.ticker_hits :
            LET direct == AliasHits(t, det_text, det_tradeable)
                          + SymbolHits(t, det_text, det_tradeable)
            IN  IF direct > 0
                THEN det_result.ticker_hits[t] = direct
                ELSE /\ t \in DOMAIN det_result.dynamic_hits
                     /\ det_result.dynamic_hits[t] \in {700, 900}
                     /\ det_result.ticker_hits[t] =
                            Max2(1, RoundDiv(det_result.dynamic_hits[t] * 3, 1000))

(* C21, the part the code keeps: a ticker hit by an alias or a symbol      *)
(* match keeps its own hit-count, and a ticker found only by the resolver  *)
(* gets the hit-count 2, whichever of the two relevances it has.           *)

C21_PseudoHitTruncated ==
    det_result.done =>
        \A t \in DOMAIN det_result.ticker_hits :
            LET direct == AliasHits(t, det_text, det_tradeable)
                          + SymbolHits(t, det_text, det_tradeable)
            IN  IF direct > 0
                THEN det_result.ticker_hits[t] = direct
                ELSE /\ t \in DOMAIN det_result.dynamic_hits
                     /\ det_result.dynamic_hits[t] \in {700, 900}
                     /\ det_result.ticker_hits[t] = 2


---------------------------------------------------------------------------
(* C22: the minimum history of the Technical Analyzer is 20 daily bars: a  *)
(* fetched history with fewer than 20 bars yields failure, and every       *)
(* fetched history with 20 or more bars, 20 to 25 included, yields a       *)
(* snapshot.                                                               *)

C22_MinimumTwentyBars ==
    (ta_result.done /\ ~ta_hist.raised) =>
        (ta_result.result.success <=> ta_hist.bars >= 20)

(* C22, as the code has it: a fetched history yields a snapshot exactly    *)
(* when it has at least 26 bars, the minimum of the MACD.                  *)

C22_MinimumOfMacd ==
    (ta_result.done /\ ~ta_hist.raised) =>
        (ta_result.result.success <=> ta_hist.bars >= 26)


---------------------------------------------------------------------------
(* C23: in analyze no word occurrence of the text contributes more than    *)
(* one entry to the list of score contributions: the target of an          *)
(* intensifier or a negator is not scored again on its own, and the words  *)
(* of a matched multi-word phrase are not scored again as single tokens.   *)
(* So the contributions are at most the matched phrases plus the lexicon   *)
(* words outside every matched phrase.                                     *)

C23_NoWordScoredTwice ==
    sent_result # Pending =>
        LET starts == {i \in 1..Len(sent_text) :
                          /\ i + 1 <= Len(sent_text)
                          /\ \E ph \in MultiWord :
                                 sent_text[i] = ph[1] /\ sent_text[i + 1] = ph[2]}
            covered == starts \cup {i + 1 : i \in starts}
            outside == {i \in 1..Len(sent_text) \ covered :
                           sent_text[i] \in DOMAIN SingleWord}
        IN  sent_result.word_hits <= Cardinality(starts) + Cardinality(outside)

(* C23, the part the code keeps: the token scan appends at most one entry  *)
(* per lexicon word of the text, a word taken as the target of an          *)
(* intensifier or a negator being skipped by the scan.                     *)

C23_ScanScoresOnce ==
    sent_result # Pending =>
        sent_result.word_hits - PhraseScores(sent_text).n
            <= Cardinality({i \in 1..Len(sent_text) :
                               sent_text[i] \in DOMAIN SingleWord})


---------------------------------------------------------------------------
(* C24: when the market is closed, execute_paper_trade returns a failure   *)
(* and leaves the portfolio as it was: the cash, every position and the    *)
(* trade history are the same after the call as before it, for BUY and     *)
(* SELL and for any amount.                                                *)

C24_ClosedMarketNoTrade ==
    (/\ app_result.done
     /\ app_result.op = "execute_paper_trade"
     /\ ~IsMarketOpen(app_world.now.weekday, app_world.now.minute)) =>
        /\ ~app_result.success
        /\ app_portfolio.cash = app_start.cash
        /\ app_portfolio.positions = app_start.positions
        /\ app_portfolio.trade_history = app_start.trade_history

\* a SELL of $200,000 of NVDA, of which shares are held, on Monday at 16:01
C24_Witness ==
    /\ app_result.done
    /\ app_result.op = "execute_paper_trade"
    /\ app_world.now = [weekday |-> 0, minute |-> 961]
    /\ app_result.action = "SELL"
    /\ app_result.symbol = "NVDA"
    /\ app_result.amount_dollars = 20000000
    /\ "NVDA" \in DOMAIN app_start.positions
    /\ ~app_result.success
    /\ app_portfolio = app_start


---------------------------------------------------------------------------
(* C25: if a refresh made while the market was closed produced an analysis *)
(* with executable recommendations (BUY or SELL, confidence at least 0.6), *)
(* then a later refresh made once the market has opened executes those     *)
(* trades automatically, even when the news have not changed between the   *)
(* two refreshes.  Stated for the refresh that follows, with the same      *)
(* news: it calls auto_execute_trades.                                     *)

\* recs has a recommendation auto_execute_trades does not skip at sight
Executable(recs) ==
    \E i \in 1..Len(recs) :
        /\ recs[i].action \in {"BUY", "SELL"}
        /\ ~TooUnsure(Get(recs[i], "confidence", 500))

C25_ExecutedOnceOpen ==
    [][(/\ ses_run'.turn # ses_run.turn
        /\ ses_run.op = "run"
        /\ ses_run.since = {}
        /\ ~ses_run.market_open
        /\ ses_run.analysed
        /\ ses_recommendations # << >>
        /\ Executable(ses_recommendations[1].recommendations)
        /\ ses_run'.market_open
        /\ ses_run'.analysed
        /\ ses_run'.current = ses_run.current)
           => ses_run'.auto_called]_vars


---------------------------------------------------------------------------
(* C26: across any sequence of refreshes, auto_execute_trades is called on *)
(* a refresh only if the market is open on that refresh and the hash of    *)
(* the news fetched differs from the hash the previous refresh stored, or  *)
(* no hash is stored; so the same news never trigger the automatic         *)
(* execution on two refreshes in a row, also after "Refresh Data" was      *)
(* pressed.  A refresh compares with the hash that is stored and stores    *)
(* its own; the hash stays stored until "Reset Portfolio" removes it.      *)

---------------------------------------------------------------------------
(* C27: after any sequence of calls of execute_paper_trade and             *)
(* auto_execute_trades from the initial portfolio the cash is never        *)
(* negative: a BUY spends the amount asked or, if that is more, the cash   *)
(* there is, and a BUY whose amount so cut is below one dollar is refused  *)
(* and leaves the portfolio as it was.                                     *)

C27_CashNeverNegative ==
    /\ app_portfolio.cash >= 0
    /\ (/\ app_result.done
        /\ app_result.op = "execute_paper_trade"
        /\ app_result.action = "BUY"
        /\ app_world.market_open) =>
           IF Min2(app_result.amount_dollars, app_start.cash) < 100
           THEN ~app_result.success /\ app_portfolio = app_start
           ELSE /\ app_result.success
                /\ app_start.cash - app_portfolio.cash
                       = Min2(app_result.amount_dollars, app_start.cash)

\* a BUY of $200,000 with $80,000 of cash left: $80,000 are spent
C27_Witness ==
    /\ app_result.done
    /\ app_result.op = "execute_paper_trade"
    /\ app_result.action = "BUY"
    /\ app_result.amount_dollars = 20000000
    /\ app_start.cash = 8000000
    /\ app_result.success
    /\ app_portfolio.cash = 0


---------------------------------------------------------------------------
(* C28: after any sequence of trades every position stored in the          *)
(* portfolio holds a strictly positive number of shares: a SELL removes at *)
(* most the shares held and credits the cash for the shares sold only, a   *)
(* position brought below 0.0001 share is deleted, and a SELL of a symbol  *)
(* with no position fails and leaves cash, positions and trade history as  *)
(* they were.                                                              *)

\* the shares of symbol held in portfolio, 0 without a position
SharesHeld(portfolio, symbol) ==
    IF symbol \in DOMAIN portfolio.positions
    THEN portfolio.positions[symbol].shares ELSE 0

C28_PositionsPositive ==
    /\ \A symbol \in DOMAIN app_portfolio.positions :
           app_portfolio.positions[symbol].shares > 0
    /\ (/\ app_result.done
        /\ app_result.op = "execute_paper_trade"
        /\ app_result.action = "SELL"
        /\ app_world.market_open) =>
           IF app_result.symbol \notin DOMAIN app_start.positions
           THEN /\ ~app_result.success
                /\ app_portfolio.cash = app_start.cash
                /\ app_portfolio.positions = app_start.positions
                /\ app_portfolio.trade_history = app_start.trade_history
           ELSE LET sold == SharesHeld(app_start, app_result.symbol)
                            - SharesHeld(app_portfolio, app_result.symbol)
                IN  /\ app_result.success
                    /\ sold >= 0
                    /\ sold <= SharesHeld(app_start, app_result.symbol)
                    /\ sold = Min2(MulDiv(app_result.amount_dollars, 10000,
                                          app_result.current_price),
                                   SharesHeld(app_start, app_result.symbol))
                    /\ app_portfolio.cash - app_start.cash
                           = MulDiv(sold, app_result.current_price, 10000)

\* a SELL of $200,000 of NVDA with 200 shares held at $100.00: the 200
\* shares are sold for $20,000 and the position is deleted
C28_Witness ==
    /\ app_result.done
    /\ app_result.op = "execute_paper_trade"
    /\ app_result.action = "SELL"
    /\ app_result.symbol = "NVDA"
    /\ app_result.amount_dollars = 20000000
    /\ SharesHeld(app_start, "NVDA") = 2000000
    /\ app_result.success
    /\ "NVDA" \notin DOMAIN app_portfolio.positions
    /\ app_portfolio.cash = app_start.cash + 2000000


---------------------------------------------------------------------------
(* C29: for every trade record a successful execute_paper_trade appends,   *)
(* the amount recorded is the shares recorded times the price recorded,    *)
(* and is the absolute change of the cash the trade made, for a BUY (also  *)
(* when the amount was cut to the cash available) and for a SELL (also     *)
(* when the amount asked is more than the position held is worth).         *)

C29_AmountIsCashChange ==
    /\ \A i \in 1..Len(app_portfolio.trade_history) :
           LET trade == app_portfolio.trade_history[i]
           IN  trade.amount = MulDiv(trade.shares, trade.price, 10000)
    /\ (/\ app_result.done
        /\ app_result.op = "execute_paper_trade"
        /\ app_result.success) =>
           LET trade == app_portfolio.trade_history[Len(app_portfolio.trade_history)]
           IN  trade.amount = Abs(app_portfolio.cash - app_start.cash)

(* C29, the part the code keeps: the record of a BUY, and of a SELL that   *)
(* asks no more than the position is worth, has the amount that the shares *)
(* times the price give and that the cash changed by; the record of a SELL *)
(* that asks more has the amount asked.                                    *)

C29_AmountAsAsked ==
    /\ \A i \in 1..Len(app_portfolio.trade_history) :
           LET trade == app_portfolio.trade_history[i]
           IN  IF trade.action = "BUY"
               THEN trade.amount = MulDiv(trade.shares, trade.price, 10000)
               ELSE trade.amount >= MulDiv(trade.shares, trade.price, 10000)
    /\ (/\ app_result.done
        /\ app_result.op = "execute_paper_trade"
        /\ app_result.success) =>
           LET trade == app_portfolio.trade_history[Len(app_portfolio.trade_history)]
               worth == MulDiv(SharesHeld(app_start, app_result.symbol),
                               app_result.current_price, 10000)
           IN  IF app_result.action = "SELL" /\ app_result.amount_dollars > worth
               THEN /\ trade.amount = app_result.amount_dollars
                    /\ app_portfolio.cash - app_start.cash = worth
               ELSE trade.amount = Abs(app_portfolio.cash - app_start.cash)


---------------------------------------------------------------------------
(* C30: in the model selection of GeminiProvider, when the name asked for  *)
(* is exactly one of the supported names, the model selected is that name, *)
(* whatever the order of the supported list and whatever other supported   *)
(* names contain it; ModelNotFoundError is raised only when no supported   *)
(* name equals or contains the name asked for.                             *)

C30_ExactNameSelected ==
    (sel_gemini.done /\ ~sel_raises /\ sel_requested # << >>) =>
        /\ (\E i \in 1..Len(sel_supported) : sel_supported[i] = sel_requested[1])
               => sel_gemini.model = sel_requested
        /\ sel_gemini.error = "ModelNotFoundError"
               => \A i \in 1..Len(sel_supported) :
                      /\ sel_supported[i] # sel_requested[1]
                      /\ ~Contains(sel_supported[i], sel_requested[1])

(* C30, as the code has it: GeminiProvider selects the first supported     *)
(* name that contains the name asked for, and raises ModelNotFoundError    *)
(* only when none does; OpenAIProvider selects the name asked for when it  *)
(* is listed.                                                              *)

C30_FirstContainingSelected ==
    /\ (sel_gemini.done /\ ~sel_raises /\ sel_requested # << >>) =>
           /\ \A i \in 1..Len(sel_supported) :
                  (/\ Contains(sel_supported[i], sel_requested[1])
                   /\ \A j \in 1..(i - 1) :
                          ~Contains(sel_supported[j], sel_requested[1]))
                      => sel_gemini.model = <<sel_supported[i]>>
           /\ sel_gemini.error = "ModelNotFoundError"
                  => \A i \in 1..Len(sel_supported) :
                         ~Contains(sel_supported[i], sel_requested[1])
    /\ (sel_openai.done /\ ~sel_raises /\ sel_requested # << >>) =>
           ((\E i \in 1..Len(sel_supported) : sel_supported[i] = sel_requested[1])
                => sel_openai.model = sel_requested)


====
